---- MODULE Spec2Model ----
(***************************************************************************)
(* Verified-mutation protocol of the Claude marketplace bridge             *)
(* (index.js): every mutating tool snapshots a registry slice, runs the    *)
(* external `claude` CLI, re-reads the slice and computes a verdict.       *)
(*                                                                         *)
(* Texts (stdout, stderr, plugin keys inside texts) are sequences of       *)
(* one-character strings so that toLowerCase() and includes() are          *)
(* computed as the code computes them.                                     *)
(***************************************************************************)
EXTENDS Integers, Sequences, FiniteSets, TLC

VARIABLES installed, enabled, known, rootExists, files, call

vars == <<installed, enabled, known, rootExists, files, call>>

(* ---------------------------------------------------------------- bounds *)
\* Largest number of install rows one plugin key holds.
MaxRows == 2

(* ------------------------------------------------------------ JS values *)
\* JavaScript undefined / null of an optional field (?? treats both alike).
Undefined == "undefined"
\* The null warning of a verification block.
Null == "null"

(* ---------------------------------------------------------------- texts *)
UpperAlphabet == <<"A", "B", "C", "D", "E", "F", "G", "H", "I", "J", "K", "L", "M", "N", "O", "P", "Q", "R", "S", "T", "U", "V", "W", "X", "Y", "Z">>
LowerAlphabet == <<"a", "b", "c", "d", "e", "f", "g", "h", "i", "j", "k", "l", "m", "n", "o", "p", "q", "r", "s", "t", "u", "v", "w", "x", "y", "z">>

\* String.prototype.toLowerCase on one character.
toLowerChar(c) ==
  IF \E j \in 1..Len(UpperAlphabet) : UpperAlphabet[j] = c
  THEN LowerAlphabet[CHOOSE j \in 1..Len(UpperAlphabet) : UpperAlphabet[j] = c]
  ELSE c

\* String.prototype.toLowerCase.
toLowerCase(text) == [i \in 1..Len(text) |-> toLowerChar(text[i])]

\* String.prototype.includes: phrase occurs as a contiguous substring.
includes(text, phrase) ==
  \E i \in 0..(Len(text) - Len(phrase)) : SubSeq(text, i + 1, i + Len(phrase)) = phrase

\* Template literal `${stdout}\n${stderr}`.
combinedOutput(result) == result.stdout \o <<"\n">> \o result.stderr

\* The fixed no-op phrases of outputSuggestsNoopUpdate.
PhraseUpToDate == <<"u", "p", " ", "t", "o", " ", "d", "a", "t", "e">>
PhraseAlreadyUpDashToDate == <<"a", "l", "r", "e", "a", "d", "y", " ", "u", "p", "-", "t", "o", "-", "d", "a", "t", "e">>
PhraseAlreadyUpToDate == <<"a", "l", "r", "e", "a", "d", "y", " ", "u", "p", " ", "t", "o", " ", "d", "a", "t", "e">>
PhraseAlreadyAtTheLatest == <<"a", "l", "r", "e", "a", "d", "y", " ", "a", "t", " ", "t", "h", "e", " ", "l", "a", "t", "e", "s", "t">>
PhraseNoUpdates == <<"n", "o", " ", "u", "p", "d", "a", "t", "e", "s">>
PhraseNoChange == <<"n", "o", " ", "c", "h", "a", "n", "g", "e">>

NoopPhrases ==
  {PhraseUpToDate, PhraseAlreadyUpDashToDate, PhraseAlreadyUpToDate,
   PhraseAlreadyAtTheLatest, PhraseNoUpdates, PhraseNoChange}

\* Faulty variant: the output is scanned without lower-casing it first.
outputSuggestsNoopUpdateCaseSensitive(result) ==
  \E phrase \in NoopPhrases : includes(combinedOutput(result), phrase)

outputSuggestsNoopUpdate(result) ==
  LET text == toLowerCase(combinedOutput(result))
  IN  \/ includes(text, PhraseUpToDate)
      \/ includes(text, PhraseAlreadyUpDashToDate)
      \/ includes(text, PhraseAlreadyUpToDate)
      \/ includes(text, PhraseAlreadyAtTheLatest)
      \/ includes(text, PhraseNoUpdates)
      \/ includes(text, PhraseNoChange)

KeywordEnable == <<"e", "n", "a", "b", "l", "e">>
KeywordDisable == <<"d", "i", "s", "a", "b", "l", "e">>

(* ------------------------------------------------------------- registry *)
\* Composite plugin keys name@marketplace known to the catalogs.
PluginKeys == {"x@a", "x@B"}

\* The characters of a plugin key.
KeyChars(key) ==
  CASE key = "x@a" -> <<"x", "@", "a">>
    [] key = "x@B" -> <<"x", "@", "B">>
    [] key = "y@a" -> <<"y", "@", "a">>

Versions == {"1.0.0", "1.1.0"}
Stamps == {"t1", "t2"}

\* One install row of installed_plugins.json.
RowValues == [version : Versions, lastUpdated : Stamps]

\* The row a missing canonical row is compared as: `afterRows[0] ?? {}`.
EmptyRow == [version |-> Undefined, lastUpdated |-> Undefined]

\* `row.scope`, `row.projectPath`: optional fields of an install row.
RowScope(row) == IF "scope" \in DOMAIN row THEN row.scope ELSE Undefined
RowProjectPath(row) == IF "projectPath" \in DOMAIN row THEN row.projectPath ELSE Undefined

\* Marketplace names of known_marketplaces.json.
MarketNames == {"a", "B"}

\* One entry of known_marketplaces.json.
MarketEntries ==
  {[lastUpdated |-> "t1", repo |-> "o/r", url |-> Undefined],
   [lastUpdated |-> "t2", repo |-> "o/r", url |-> Undefined],
   [lastUpdated |-> "t1", repo |-> "o/r", url |-> "https://u"],
   [lastUpdated |-> "t1", repo |-> Undefined, url |-> "https://u"],
   [lastUpdated |-> Undefined, repo |-> Undefined, url |-> Undefined]}

\* `installed[key] ?? []`: a key without entry has no rows.
RowsOf(inst, key) == IF key \in DOMAIN inst THEN inst[key] ELSE <<>>

\* `rows[0] ?? {}`.
FirstRow(rows) == IF Len(rows) > 0 THEN rows[1] ELSE EmptyRow

\* The characters of a marketplace name.
NameText(name) ==
  CASE name = "a" -> <<"a">>
    [] name = "B" -> <<"B">>

\* UTF-16 code units of the characters of the keys.
CodeUnit(c) ==
  CASE c = "@" -> 64
    [] c = "B" -> 66
    [] c = "a" -> 97
    [] c = "x" -> 120
    [] c = "y" -> 121

\* Order of Array.prototype.sort() without comparator: by code units.
RECURSIVE CharsBefore(_, _)
CharsBefore(s, t) ==
  IF Len(t) = 0 THEN FALSE
  ELSE IF Len(s) = 0 THEN TRUE
  ELSE IF CodeUnit(s[1]) # CodeUnit(t[1]) THEN CodeUnit(s[1]) < CodeUnit(t[1])
  ELSE CharsBefore(Tail(s), Tail(t))

\* `keys.sort()`.
RECURSIVE SortKeys(_)
SortKeys(keys) ==
  IF keys = {} THEN <<>>
  ELSE LET first == CHOOSE k \in keys :
                      \A other \in keys \ {k} : CharsBefore(KeyChars(k), KeyChars(other))
       IN  <<first>> \o SortKeys(keys \ {first})

\* `names.sort()` for marketplace names.
RECURSIVE SortNames(_)
SortNames(names) ==
  IF names = {} THEN <<>>
  ELSE LET first == CHOOSE n \in names :
                      \A other \in names \ {n} : CharsBefore(NameText(n), NameText(other))
       IN  <<first>> \o SortNames(names \ {first})

\* Sequences over S of length at most n.
RECURSIVE SeqsUpTo(_, _)
SeqsUpTo(S, n) ==
  IF n = 0 THEN {<<>>}
  ELSE LET shorter == SeqsUpTo(S, n - 1)
       IN  shorter \cup {Append(s, x) : s \in {t \in shorter : Len(t) = n - 1}, x \in S}

\* Functions from a subset of D to R (JSON objects with keys in D).
PartialMaps(D, R) == UNION {[d -> R] : d \in SUBSET D}

(* ------------------------------------------------------ registry reader *)
\* What a read of a registry file meets: a file with valid JSON, no file, a
\* file that cannot be read, a file whose content does not parse.
FileStates == {"ok", "absent", "unreadable", "invalid"}

\* Marketplaces with a directory under the marketplaces storage path.
CatalogDirs == {"a", "B"}

\* Every registry file readable and valid / the files of a missing data root.
FilesOk ==
  [known |-> "ok", installed |-> "ok", config |-> "ok", counts |-> "ok",
   catalogs |-> [m \in CatalogDirs |-> "ok"]]
FilesAbsent ==
  [known |-> "absent", installed |-> "absent", config |-> "absent", counts |-> "absent",
   catalogs |-> [m \in CatalogDirs |-> "absent"]]

\* readJSON(path) ?? fallback: the parsed content, or the fallback when the
\* read or the parse fails; nothing is raised.
readJSON(state, content, fallback) == IF state = "ok" THEN content ELSE fallback

\* Content of config.json.
ConfigFile == [sync_mode |-> "auto"]

\* lib/data.js accessors: each returns the current content of its file, or
\* its empty default.
getInstalledPlugins == readJSON(files.installed, installed, <<>>)
getEnabledPluginsMap == enabled
getKnownMarketplaces == readJSON(files.known, known, <<>>)
getConfig == readJSON(files.config, ConfigFile, <<>>)
isPluginSystemAvailable == rootExists

\* Faulty variant: the tools go on without the data root.
PluginSystemMissingIgnored == FALSE

\* The first statement of every tool: `if (!await isPluginSystemAvailable()) return ...`
PluginSystemMissing == ~isPluginSystemAvailable

(* ----------------------------------------------------------- CLI bridge *)
\* Outcomes of spawnSync("claude", args): `error` set on spawn failure and
\* on timeout, `status` null when the child was killed.
OutAlreadyUpToDate == <<"A", "l", "r", "e", "a", "d", "y", " ", "U", "p", " ", "T", "o", " ", "D", "a", "t", "e">>
OutEnabledXA == <<"E", "n", "a", "b", "l", "e", "d", " ", "x", "@", "a", "\n">>
OutDisabledXB == <<"D", "i", "s", "a", "b", "l", "e", "d", " ", "X", "@", "B">>
OutUpTo == <<"u", "p", " ", "t", "o">>
ErrNoChanges == <<"N", "o", " ", "C", "h", "a", "n", "g", "e", "s">>
ErrDate == <<"d", "a", "t", "e">>
ErrFailed == <<"f", "a", "i", "l", "e", "d">>
ErrSpawn == <<"E", "N", "O", "E", "N", "T">>
ErrTimeout == <<"E", "T", "I", "M", "E", "D", "O", "U", "T">>

\* stdout/stderr pairs a finished child can leave.
Outputs ==
  {<<<<>>, <<>>>>, <<OutAlreadyUpToDate, <<>>>>, <<OutEnabledXA, <<>>>>,
   <<OutDisabledXB, <<>>>>, <<<<>>, ErrNoChanges>>, <<OutUpTo, ErrDate>>}

\* stdout/stderr pairs of a child that exits non-zero.
FailureOutputs == {<<<<>>, ErrFailed>>, <<OutAlreadyUpToDate, ErrFailed>>, <<OutEnabledXA, <<>>>>}

SpawnOutcomes ==
  {[hasError |-> FALSE, message |-> <<>>, hasStatus |-> TRUE, status |-> 0,
    stdout |-> o[1], stderr |-> o[2]] : o \in Outputs}
  \cup
  {[hasError |-> FALSE, message |-> <<>>, hasStatus |-> TRUE, status |-> 1,
    stdout |-> o[1], stderr |-> o[2]] : o \in FailureOutputs}
  \cup
  {[hasError |-> TRUE, message |-> ErrSpawn, hasStatus |-> FALSE, status |-> 0,
    stdout |-> <<>>, stderr |-> <<>>],
   [hasError |-> TRUE, message |-> ErrTimeout, hasStatus |-> FALSE, status |-> 0,
    stdout |-> OutAlreadyUpToDate, stderr |-> <<>>],
   [hasError |-> FALSE, message |-> <<>>, hasStatus |-> FALSE, status |-> 0,
    stdout |-> <<>>, stderr |-> <<>>]}

\* Faulty variant: a null status is reported as exit code 0.
runClaudeNullStatusZero(args, spawn) ==
  IF spawn.hasError
  THEN [ok |-> FALSE, exitCode |-> -1, stdout |-> <<>>, stderr |-> spawn.message,
        command |-> <<"claude">> \o args]
  ELSE [ok |-> spawn.hasStatus /\ spawn.status = 0,
        exitCode |-> IF spawn.hasStatus THEN spawn.status ELSE 0,
        stdout |-> spawn.stdout, stderr |-> spawn.stderr,
        command |-> <<"claude">> \o args]

\* Faulty variant: result.error is not looked at.
runClaudeErrorIgnored(args, spawn) ==
  [ok |-> spawn.hasStatus /\ spawn.status = 0,
   exitCode |-> IF spawn.hasStatus THEN spawn.status ELSE -1,
   stdout |-> spawn.stdout, stderr |-> spawn.stderr,
   command |-> <<"claude">> \o args]

\* Result of runClaude(args) for one outcome of spawnSync.
runClaude(args, spawn) ==
  IF spawn.hasError
  THEN [ok |-> FALSE, exitCode |-> -1, stdout |-> <<>>, stderr |-> spawn.message,
        command |-> <<"claude">> \o args]
  ELSE [ok |-> spawn.hasStatus /\ spawn.status = 0,
        exitCode |-> IF spawn.hasStatus THEN spawn.status ELSE -1,
        stdout |-> spawn.stdout, stderr |-> spawn.stderr,
        command |-> <<"claude">> \o args]

\* Faulty variant: the probe's result is not looked at.
isClaudeAvailableUnchecked(spawn) == TRUE

\* isClaudeAvailable: `runClaude(["--version"]).ok`
isClaudeAvailable(spawn) == runClaude(<<"--version">>, spawn).ok

(* ---------------------------------------------------- state summaries *)
RECURSIVE FilterDefined(_)
\* rows.map(row => row?.version).filter(Boolean)
FilterDefined(values) ==
  IF values = <<>> THEN <<>>
  ELSE IF Head(values) = Undefined THEN FilterDefined(Tail(values))
       ELSE <<Head(values)>> \o FilterDefined(Tail(values))

\* `${rows.length} row(s), versions=[...]`
summarizePluginState(inst, key) ==
  LET rows == RowsOf(inst, key)
  IN  [rows |-> Len(rows),
       versions |-> FilterDefined([i \in 1..Len(rows) |-> rows[i].version])]

\* "missing" | "enabled" | "disabled"
summarizeEnabledState(map, pluginKey) ==
  IF pluginKey \notin DOMAIN map THEN "missing"
  ELSE IF map[pluginKey] THEN "enabled" ELSE "disabled"

\* a ?? b for optional strings.
Coalesce(a, b) == IF a = Undefined THEN b ELSE a

\* "missing" | `present(lastUpdated=..., source=...)`
summarizeMarketplaceState(knownMap, key) ==
  IF key \notin DOMAIN knownMap THEN <<"missing">>
  ELSE LET entry == knownMap[key]
           updated == Coalesce(entry.lastUpdated, "unknown")
           source == Coalesce(entry.repo, Coalesce(entry.url, "unknown"))
       IN  <<"present", updated, source>>

(* ----------------------------------------------------------- resolution *)
\* The characters of the identifiers a caller can pass.
Chars(id) ==
  CASE id = "" -> <<>>
    [] id = "x" -> <<"x">>
    [] id = "zz" -> <<"z", "z">>
    [] id = "a" -> <<"a">>
    [] id = "b" -> <<"b">>
    [] id = "B" -> <<"B">>
    [] id = "c" -> <<"c">>
    [] id = "x@" -> <<"x", "@">>
    [] id = "x@b" -> <<"x", "@", "b">>
    [] id \in PluginKeys \cup {"y@a"} -> KeyChars(id)

\* Position of the first "@" of a key.
AtIndex(chars) == CHOOSE i \in 1..Len(chars) : chars[i] = "@" /\ \A j \in 1..(i - 1) : chars[j] # "@"

\* name and marketplace of the row of a composite key `${name}@${marketplace}`.
NameChars(key) == SubSeq(KeyChars(key), 1, AtIndex(KeyChars(key)) - 1)
MarketplaceChars(key) == SubSeq(KeyChars(key), AtIndex(KeyChars(key)) + 1, Len(KeyChars(key)))

\* The marketplace whose catalog publishes a key.
CatalogOf(key) == IF key = "x@B" THEN "B" ELSE "a"

\* Names of the marketplaces whose catalog was read and parsed
\* (getAllMarketplaceCatalogs): a catalog that fails to parse is skipped.
CatalogMarkets == {m \in CatalogDirs : files.catalogs[m] = "ok"}

\* Keys published by the marketplace catalogs (getAvailablePlugins).
CatalogKeys == {key \in PluginKeys \cup {"y@a"} : CatalogOf(key) \in CatalogMarkets}

\* The rows of getAvailablePlugins, in catalog order, and their install counts.
PublishedRows == <<"x@a", "y@a", "x@B">>
InstallCounts == [key \in {"x@B"} |-> 25]

\* `rows.filter(keep)` for a set of kept keys.
RECURSIVE FilterRows(_, _)
FilterRows(rows, keep) ==
  IF Len(rows) = 0 THEN <<>>
  ELSE IF rows[1] \in keep THEN <<rows[1]>> \o FilterRows(Tail(rows), keep)
  ELSE FilterRows(Tail(rows), keep)

\* Rows of the catalogs that were parsed; `installCounts[key] ?? 0` over the
\* install-counts cache or its empty default.
CatalogRows == FilterRows(PublishedRows, CatalogKeys)
getInstallCounts == readJSON(files.counts, InstallCounts, <<>>)
Installs(key) == IF key \in DOMAIN getInstallCounts THEN getInstallCounts[key] ELSE 0

\* `row.category` of a catalog row.
Category(key) == IF key = "y@a" THEN <<"C">> ELSE <<>>

\* `row.installed` of an available row: the key has an install row.
IsInstalled(key) == Len(RowsOf(getInstalledPlugins, key)) > 0

\* Keys of summarizeInstalled(installed), in the order Array.sort starts from.
summarizeInstalled(inst) == SortKeys(DOMAIN inst)

\* `plugin.description ?? ""` of a catalog row.
Description(key) == IF key = "x@B" THEN <<"D">> ELSE <<>>

\* The rows of getAvailablePlugins, with the fields plugin_info prints.
AvailableEntries ==
  [i \in DOMAIN CatalogRows |->
     [key |-> CatalogRows[i], description |-> Description(CatalogRows[i]),
      installs |-> Installs(CatalogRows[i]), tags |-> <<>>,
      installed |-> IsInstalled(CatalogRows[i])]]

\* `installed.map((row) => ({ ...row, description: "", installs: 0,
\* installed: true, ..., tags: [] }))`
InstalledEntries ==
  LET rows == summarizeInstalled(getInstalledPlugins)
  IN  [i \in DOMAIN rows |->
         [key |-> rows[i], description |-> <<>>, installs |-> 0, tags |-> <<>>, installed |-> TRUE]]

\* Faulty variant: a key the Map holds keeps its first value.
MapSetKeepFirst(entries, plugin) ==
  IF \E i \in DOMAIN entries : entries[i].key = plugin.key THEN entries ELSE Append(entries, plugin)

\* `map.set(plugin.key, plugin)`: a key the Map holds keeps its place and gets
\* the new value, a new key goes to the end.
MapSet(entries, plugin) ==
  IF \E i \in DOMAIN entries : entries[i].key = plugin.key
  THEN [i \in DOMAIN entries |-> IF entries[i].key = plugin.key THEN plugin ELSE entries[i]]
  ELSE Append(entries, plugin)

\* dedupeByKey: Array.from(map.values()) after map.set of every plugin in order.
RECURSIVE dedupeByKey(_)
dedupeByKey(plugins) ==
  IF Len(plugins) = 0 THEN <<>>
  ELSE MapSet(dedupeByKey(SubSeq(plugins, 1, Len(plugins) - 1)), plugins[Len(plugins)])

\* The merged view of resolvePluginTarget and plugin_info, and its keys.
MergedView == dedupeByKey(AvailableEntries \o InstalledEntries)
MergedKeys == {MergedView[i].key : i \in DOMAIN MergedView}


\* lib/data.js normalizePluginIdentifier: the trimmed identifier.
normalizePluginIdentifier(pluginName, marketplace) == pluginName

\* Faulty variant: an identifier with "@" is matched on the name before the
\* "@", as a name-only identifier is.
findMatchingPluginsByNamePart(plugins, pluginName, marketplace) ==
  LET normalized == normalizePluginIdentifier(pluginName, marketplace)
      chars == Chars(normalized)
      name == IF includes(chars, <<"@">>) THEN SubSeq(chars, 1, AtIndex(chars) - 1) ELSE chars
      byName == {k \in plugins : toLowerCase(NameChars(k)) = toLowerCase(name)}
  IN  IF normalized = "" THEN {}
      ELSE IF marketplace # ""
           THEN {k \in byName : toLowerCase(MarketplaceChars(k)) = toLowerCase(Chars(marketplace))}
           ELSE byName

\* Keys of `plugins` matching the identifier (findMatchingPlugins).
findMatchingPlugins(plugins, pluginName, marketplace) ==
  LET normalized == normalizePluginIdentifier(pluginName, marketplace)
      byName == {k \in plugins : toLowerCase(NameChars(k)) = toLowerCase(Chars(normalized))}
  IN  IF normalized = "" THEN {}
      ELSE IF includes(Chars(normalized), <<"@">>) THEN {k \in plugins : k = normalized}
      ELSE IF marketplace # ""
           THEN {k \in byName : toLowerCase(MarketplaceChars(k)) = toLowerCase(Chars(marketplace))}
           ELSE byName

\* `plugins.filter(...)` of findMatchingPlugins over the entries of a view.
MatchingEntries(plugins, pluginName, marketplace) ==
  SelectSeq(plugins, LAMBDA e : e.key \in findMatchingPlugins({e.key}, pluginName, marketplace))

\* Faulty variant: an ambiguous result names one candidate only.
resolvePluginTargetOneCandidate(plugin, marketplace) ==
  LET merged == CatalogKeys \cup DOMAIN getInstalledPlugins
      matches == findMatchingPlugins(merged, plugin, marketplace)
  IN  IF matches = {}
      THEN [ok |-> FALSE, reason |-> "No plugin matched", candidates |-> {}, target |-> ""]
      ELSE IF Cardinality(matches) > 1
           THEN [ok |-> FALSE, reason |-> "Multiple plugins matched; use plugin@marketplace",
                 candidates |-> {CHOOSE k \in matches : TRUE}, target |-> ""]
           ELSE [ok |-> TRUE, reason |-> "", candidates |-> {},
                 target |-> CHOOSE k \in matches : TRUE]

\* Faulty variant: several matches resolve to one of them.
resolvePluginTargetFirstMatch(plugin, marketplace) ==
  LET merged == CatalogKeys \cup DOMAIN getInstalledPlugins
      matches == findMatchingPlugins(merged, plugin, marketplace)
  IN  IF matches = {}
      THEN [ok |-> FALSE, reason |-> "No plugin matched", candidates |-> {}, target |-> ""]
      ELSE [ok |-> TRUE, reason |-> "", candidates |-> {},
            target |-> CHOOSE k \in matches : TRUE]

\* resolvePluginTarget over the merged catalog + installed view.
resolvePluginTarget(plugin, marketplace) ==
  LET matches == MatchingEntries(MergedView, plugin, marketplace)
  IN  IF Len(matches) = 0
      THEN [ok |-> FALSE, reason |-> "No plugin matched", candidates |-> {}, target |-> ""]
      ELSE IF Len(matches) > 1
           THEN [ok |-> FALSE, reason |-> "Multiple plugins matched; use plugin@marketplace",
                 candidates |-> {matches[i].key : i \in DOMAIN matches}, target |-> ""]
           ELSE [ok |-> TRUE, reason |-> "", candidates |-> {}, target |-> matches[1].key]

(* -------------------------------------------------- verification engine *)
\* Faulty variant: a warning whenever the verdict is negative, also after a failed CLI call.
DriftWarningAlways(cliResult, verified, message) == IF ~verified THEN message ELSE Null

\* `cliResult.ok && !verified ? "<message>" : null`
DriftWarning(cliResult, verified, message) ==
  IF cliResult.ok /\ ~verified THEN message ELSE Null

\* Faulty variant: an unchanged row count passes.
InstallVerifiedNotStrict(before, after, pluginKey) ==
  Len(RowsOf(after, pluginKey)) >= Len(RowsOf(before, pluginKey))

\* plugin_install: (after[pluginKey]?.length ?? 0) > (before[pluginKey]?.length ?? 0)
InstallVerified(before, after, pluginKey) ==
  Len(RowsOf(after, pluginKey)) > Len(RowsOf(before, pluginKey))

\* Faulty variant: an emptied key passes whatever it held before.
UninstallVerifiedWhenEmpty(before, after, pluginKey) ==
  \/ Len(RowsOf(after, pluginKey)) < Len(RowsOf(before, pluginKey))
  \/ Len(RowsOf(after, pluginKey)) = 0

\* plugin_uninstall: (after[pluginKey]?.length ?? 0) < (before[pluginKey]?.length ?? 0)
UninstallVerified(before, after, pluginKey) ==
  Len(RowsOf(after, pluginKey)) < Len(RowsOf(before, pluginKey))

\* Faulty variant: a version counts as changed only when the row is still there.
versionChangedRowKept(firstRow, afterFirst) ==
  firstRow.version # afterFirst.version /\ afterFirst.version # Undefined

\* plugin_update: the three signals of the verdict.
versionChanged(firstRow, afterFirst) == firstRow.version # afterFirst.version
updatedChanged(firstRow, afterFirst) == firstRow.lastUpdated # afterFirst.lastUpdated

\* Faulty variant: the lastUpdated signal is dropped.
UpdateVerifiedNoTimestamp(before, after, pluginKey, cliResult) ==
  LET firstRow == FirstRow(RowsOf(before, pluginKey))
      afterFirst == FirstRow(RowsOf(after, pluginKey))
  IN  versionChanged(firstRow, afterFirst) \/ outputSuggestsNoopUpdate(cliResult)

\* plugin_update: versionChanged || updatedChanged || outputNoop
UpdateVerified(before, after, pluginKey, cliResult) ==
  LET firstRow == FirstRow(RowsOf(before, pluginKey))
      afterFirst == FirstRow(RowsOf(after, pluginKey))
  IN  \/ versionChanged(firstRow, afterFirst)
      \/ updatedChanged(firstRow, afterFirst)
      \/ outputSuggestsNoopUpdate(cliResult)

\* plugin_update: the reason line.
UpdateReason(before, after, pluginKey, cliResult) ==
  LET firstRow == FirstRow(RowsOf(before, pluginKey))
      afterFirst == FirstRow(RowsOf(after, pluginKey))
  IN  IF versionChanged(firstRow, afterFirst) THEN "version changed"
      ELSE IF updatedChanged(firstRow, afterFirst) THEN "lastUpdated changed"
      ELSE IF outputSuggestsNoopUpdate(cliResult)
           THEN "CLI output indicates already at latest version"
           ELSE "could not confirm update from state or CLI output"

\* Faulty variant: the keyword alone confirms, whichever plugin the output names.
verifyEnableDisableOutputAnyPlugin(cliResult, keyword, pluginKey) ==
  includes(toLowerCase(combinedOutput(cliResult)), keyword)

\* verifyEnableDisableOutput: keyword and plugin key both occur in the output.
verifyEnableDisableOutput(cliResult, keyword, pluginKey) ==
  LET combined == toLowerCase(combinedOutput(cliResult))
      keywordOk == includes(combined, keyword)
      pluginMention == includes(combined, toLowerCase(KeyChars(pluginKey)))
  IN  keywordOk /\ pluginMention

\* Faulty variant: a key absent before counts as disabled before.
EnableStateVerifiedFromMissing(beforeEnabled, afterEnabled, pluginKey) ==
  /\ (pluginKey \notin DOMAIN beforeEnabled \/ beforeEnabled[pluginKey] = FALSE)
  /\ pluginKey \in DOMAIN afterEnabled /\ afterEnabled[pluginKey] = TRUE

\* plugin_enable: beforeEnabled[pluginKey] === false && afterEnabled[pluginKey] === true
EnableStateVerified(beforeEnabled, afterEnabled, pluginKey) ==
  /\ pluginKey \in DOMAIN beforeEnabled /\ beforeEnabled[pluginKey] = FALSE
  /\ pluginKey \in DOMAIN afterEnabled /\ afterEnabled[pluginKey] = TRUE

\* Faulty variant: any key that ends disabled passes.
DisableStateVerifiedAfterOnly(beforeEnabled, afterEnabled, pluginKey) ==
  pluginKey \in DOMAIN afterEnabled /\ afterEnabled[pluginKey] = FALSE

\* plugin_disable: beforeEnabled[pluginKey] === true && afterEnabled[pluginKey] === false
DisableStateVerified(beforeEnabled, afterEnabled, pluginKey) ==
  /\ pluginKey \in DOMAIN beforeEnabled /\ beforeEnabled[pluginKey] = TRUE
  /\ pluginKey \in DOMAIN afterEnabled /\ afterEnabled[pluginKey] = FALSE

\* marketplace_add: keys of `after` that `before` does not hold.
AddedKeys(before, after) == {key \in DOMAIN after : key \notin DOMAIN before}

\* Faulty variant: any change of the number of keys passes.
MarketplaceAddVerifiedByCount(before, after) ==
  Cardinality(DOMAIN after) # Cardinality(DOMAIN before)

\* marketplace_add: added.length > 0
MarketplaceAddVerified(before, after) == AddedKeys(before, after) # {}

\* marketplace_update: the targets, those existing afterwards, those changed.
UpdateTargets(after, marketplace) == IF marketplace # "" THEN {marketplace} ELSE DOMAIN after
ExistingTargets(after, marketplace) == {t \in UpdateTargets(after, marketplace) : t \in DOMAIN after}
ChangedTargets(before, after, marketplace) ==
  {t \in ExistingTargets(after, marketplace) :
     summarizeMarketplaceState(before, t) # summarizeMarketplaceState(after, t)}

\* Faulty variant: the no-op phrase passes without any existing target.
MarketplaceUpdateVerifiedNoTargetCheck(before, after, marketplace, cliResult) ==
  \/ Cardinality(ChangedTargets(before, after, marketplace)) > 0
  \/ outputSuggestsNoopUpdate(cliResult)

\* marketplace_update: existingTargets > 0 && (changed > 0 || outputNoop)
MarketplaceUpdateVerified(before, after, marketplace, cliResult) ==
  /\ Cardinality(ExistingTargets(after, marketplace)) > 0
  /\ \/ Cardinality(ChangedTargets(before, after, marketplace)) > 0
     \/ outputSuggestsNoopUpdate(cliResult)

\* Faulty variant: absence afterwards passes whatever was there before.
MarketplaceRemoveVerifiedAfterOnly(before, after, marketplace) ==
  marketplace \notin DOMAIN after

\* marketplace_remove: Boolean(before[m]) && !after[m]
MarketplaceRemoveVerified(before, after, marketplace) ==
  marketplace \in DOMAIN before /\ marketplace \notin DOMAIN after

(* ------------------------------------------------------------ tool calls *)
\* Concurrent tool invocations the host can have in flight.
Procs == {1}

PluginTools == {"plugin_install", "plugin_uninstall", "plugin_update", "plugin_enable", "plugin_disable"}
MarketplaceTools == {"marketplace_add", "marketplace_update", "marketplace_remove"}
MutatingTools == PluginTools \cup MarketplaceTools

EmptyMap == <<>>
NoSnapshot == [installed |-> EmptyMap, enabled |-> EmptyMap, known |-> EmptyMap]
NoResult == [ok |-> FALSE, exitCode |-> 0, stdout |-> <<>>, stderr |-> <<>>, command |-> <<>>]
NoVerification ==
  [exitCode |-> 0, verified |-> FALSE, before |-> <<>>, after |-> <<>>, reason |-> "", warning |-> Null]
NoReply == [kind |-> "none", text |-> "", candidates |-> {}]

\* The locals of update_all: the marketplace phase, the one snapshot of
\* installed_plugins.json, the keys still to visit and the tallies.
NoBatch ==
  [marketplacesBefore |-> EmptyMap, mpOk |-> FALSE, mpExit |-> 0, mpTargets |-> 0, mpChanged |-> 0,
   mpVerified |-> FALSE, mpLine |-> [success |-> FALSE, text |-> "", exit |-> 0, err |-> <<>>],
   installedBefore |-> EmptyMap, total |-> 0, pending |-> <<>>,
   updated |-> 0, alreadyLatest |-> 0, failed |-> 0, unverified |-> 0, pluginResults |-> <<>>]

\* The arguments of plugin_search (limit 0 = not given).
NoArgs == [query |-> "", category |-> "", marketplace |-> "", installed_only |-> FALSE, limit |-> 0]

IdleCall ==
  [pc |-> "idle", tool |-> "", plugin |-> "", marketplace |-> "", pluginKey |-> "", args |-> NoArgs,
   scope |-> Undefined, spawnOptions |-> <<>>,
   before |-> NoSnapshot, cli |-> NoResult, after |-> NoSnapshot,
   verification |-> NoVerification, reply |-> NoReply, log |-> <<>>, batch |-> NoBatch]

\* What a call did outside its own memory, in order: a registry accessor it
\* awaited, or a child process it spawned through runClaude.
ReadEvent(name) == [op |-> "read", name |-> name, args |-> <<>>, ok |-> TRUE]
SpawnEvent(result) == [op |-> "spawn", name |-> "runClaude", args |-> Tail(result.command), ok |-> result.ok]
\* Faulty variant: the availability probe runs a plugin command.
ProbeArgsPluginCommand == <<"plugin", "update">>

\* The arguments of the availability probe.
ProbeArgs == <<"--version">>
ProbeEvent(spawn) == SpawnEvent(runClaude(ProbeArgs, spawn))

\* The accessors resolvePluginTarget awaits.
ResolveReads == <<ReadEvent("getAvailablePlugins"), ReadEvent("getInstalledPlugins")>>

\* The accessors a tool awaits for one snapshot.
SnapshotReads(tool) ==
  IF tool \in {"plugin_enable", "plugin_disable"}
  THEN <<ReadEvent("getInstalledPlugins"), ReadEvent("getEnabledPluginsMap")>>
  ELSE IF tool \in PluginTools THEN <<ReadEvent("getInstalledPlugins")>>
  ELSE <<ReadEvent("getKnownMarketplaces")>>

\* A tool returning a plain explanatory message.
MessageReply(text, candidates) == [kind |-> "message", text |-> text, candidates |-> candidates]

\* Faulty variant: the plugin tools do not read installed_plugins.json.
SnapshotWithoutInstalled(tool) ==
  [installed |-> EmptyMap,
   enabled |-> IF tool \in {"plugin_enable", "plugin_disable"} THEN getEnabledPluginsMap ELSE EmptyMap,
   known |-> IF tool \in MarketplaceTools THEN getKnownMarketplaces ELSE EmptyMap]

\* The registry slice a tool reads before and after the CLI call.
Snapshot(tool) ==
  [installed |-> IF tool \in PluginTools THEN getInstalledPlugins ELSE EmptyMap,
   enabled |-> IF tool \in {"plugin_enable", "plugin_disable"} THEN getEnabledPluginsMap ELSE EmptyMap,
   known |-> IF tool \in MarketplaceTools THEN getKnownMarketplaces ELSE EmptyMap]

\* Faulty variant: the scope argument is overridden by the row's scope.
UpdateScopeRowFirst(argScope, firstRow) ==
  Coalesce(RowScope(firstRow), Coalesce(argScope, "user"))

\* `args.scope ?? firstRow.scope ?? "user"` (update_all has no scope argument).
UpdateScope(argScope, firstRow) ==
  Coalesce(argScope, Coalesce(RowScope(firstRow), "user"))

\* The options an update hands to runClaude: update_all's timeout, and
\* `cwd` when the scope is "project" and the canonical row has a project path.
UpdateOptions(scope, firstRow, timeout) ==
  LET projectPath == RowProjectPath(firstRow)
      withCwd == scope = "project" /\ projectPath # Undefined
  IN  IF timeout > 0
      THEN (IF withCwd THEN [timeout |-> timeout, cwd |-> projectPath] ELSE [timeout |-> timeout])
      ELSE (IF withCwd THEN [cwd |-> projectPath] ELSE <<>>)

\* The options object runClaude hands to spawnSync: the timeout given or
\* 180 s, and `cwd` when one was given.
spawnOptions(options) ==
  LET timeout == IF "timeout" \in DOMAIN options THEN options.timeout ELSE 180000
  IN  IF "cwd" \in DOMAIN options
      THEN [timeout |-> timeout, cwd |-> options.cwd]
      ELSE [timeout |-> timeout]

\* The options a single-target tool hands to runClaude.
CliOptions(c) ==
  IF c.tool = "plugin_update"
  THEN LET firstRow == FirstRow(RowsOf(c.before.installed, c.pluginKey))
       IN  UpdateOptions(UpdateScope(c.scope, firstRow), firstRow, 0)
  ELSE <<>>

\* Faulty variant: the plugin tools hand the caller's identifier to the CLI.
CliArgsRawInput(c) ==
  CASE c.tool = "plugin_install" -> <<"plugin", "install", c.plugin>>
    [] c.tool = "plugin_uninstall" -> <<"plugin", "uninstall", c.plugin>>
    [] c.tool = "plugin_update" ->
         <<"plugin", "update", c.plugin, "--scope",
           UpdateScope(c.scope, FirstRow(RowsOf(c.before.installed, c.pluginKey)))>>
    [] c.tool = "plugin_enable" -> <<"plugin", "enable", c.plugin>>
    [] c.tool = "plugin_disable" -> <<"plugin", "disable", c.plugin>>
    [] c.tool = "marketplace_add" -> <<"plugin", "marketplace", "add", c.marketplace>>
    [] c.tool = "marketplace_update" ->
         IF c.marketplace # "" THEN <<"plugin", "marketplace", "update", c.marketplace>>
         ELSE <<"plugin", "marketplace", "update">>
    [] c.tool = "marketplace_remove" -> <<"plugin", "marketplace", "remove", c.marketplace>>

\* The argument list handed to runClaude.
CliArgs(c) ==
  CASE c.tool = "plugin_install" -> <<"plugin", "install", c.pluginKey>>
    [] c.tool = "plugin_uninstall" -> <<"plugin", "uninstall", c.pluginKey>>
    [] c.tool = "plugin_update" ->
         <<"plugin", "update", c.pluginKey, "--scope",
           UpdateScope(c.scope, FirstRow(RowsOf(c.before.installed, c.pluginKey)))>>
    [] c.tool = "plugin_enable" -> <<"plugin", "enable", c.pluginKey>>
    [] c.tool = "plugin_disable" -> <<"plugin", "disable", c.pluginKey>>
    [] c.tool = "marketplace_add" -> <<"plugin", "marketplace", "add", c.marketplace>>
    [] c.tool = "marketplace_update" ->
         IF c.marketplace # "" THEN <<"plugin", "marketplace", "update", c.marketplace>>
         ELSE <<"plugin", "marketplace", "update">>
    [] c.tool = "marketplace_remove" -> <<"plugin", "marketplace", "remove", c.marketplace>>

\* `${summarizePluginState(...)}; enabled_state=${summarizeEnabledState(...)}`
summarizePluginAndEnabled(snap, pluginKey) ==
  [plugin |-> summarizePluginState(snap.installed, pluginKey),
   enabled_state |-> summarizeEnabledState(snap.enabled, pluginKey)]

\* The verification value a tool hands to buildMutationReply.
Verification(c, before, after) ==
  LET k == c.pluginKey
      m == c.marketplace
      r == c.cli
  IN
  CASE c.tool = "plugin_install" ->
         LET verified == InstallVerified(before.installed, after.installed, k)
         IN  [exitCode |-> r.exitCode, verified |-> verified,
              before |-> summarizePluginState(before.installed, k),
              after |-> summarizePluginState(after.installed, k),
              reason |-> IF verified THEN "install row count increased"
                         ELSE "install row count did not increase",
              warning |-> DriftWarning(r, verified, "CLI reported success but installed_plugins.json did not show a new row")]
    [] c.tool = "plugin_uninstall" ->
         LET verified == UninstallVerified(before.installed, after.installed, k)
         IN  [exitCode |-> r.exitCode, verified |-> verified,
              before |-> summarizePluginState(before.installed, k),
              after |-> summarizePluginState(after.installed, k),
              reason |-> IF verified THEN "install row count decreased"
                         ELSE "install row count did not decrease",
              warning |-> DriftWarning(r, verified, "CLI reported success but installed_plugins.json did not show a row decrease")]
    [] c.tool = "plugin_update" ->
         LET verified == UpdateVerified(before.installed, after.installed, k, r)
         IN  [exitCode |-> r.exitCode, verified |-> verified,
              before |-> summarizePluginState(before.installed, k),
              after |-> summarizePluginState(after.installed, k),
              reason |-> UpdateReason(before.installed, after.installed, k, r),
              warning |-> DriftWarning(r, verified, "CLI reported success but no version/lastUpdated change detected")]
    [] c.tool = "plugin_enable" ->
         LET outputVerified == verifyEnableDisableOutput(r, KeywordEnable, k)
             stateVerified == EnableStateVerified(before.enabled, after.enabled, k)
             verified == stateVerified \/ outputVerified
         IN  [exitCode |-> r.exitCode, verified |-> verified,
              before |-> summarizePluginAndEnabled(before, k),
              after |-> summarizePluginAndEnabled(after, k),
              reason |-> IF stateVerified THEN "enabledPlugins state transitioned false->true"
                         ELSE IF outputVerified THEN "CLI output confirms enable operation"
                         ELSE "could not confirm enable transition from settings or output",
              warning |-> DriftWarning(r, verified, "Enable command succeeded but neither settings state nor CLI output provided unambiguous confirmation")]
    [] c.tool = "plugin_disable" ->
         LET outputVerified == verifyEnableDisableOutput(r, KeywordDisable, k)
             stateVerified == DisableStateVerified(before.enabled, after.enabled, k)
             verified == stateVerified \/ outputVerified
         IN  [exitCode |-> r.exitCode, verified |-> verified,
              before |-> summarizePluginAndEnabled(before, k),
              after |-> summarizePluginAndEnabled(after, k),
              reason |-> IF stateVerified THEN "enabledPlugins state transitioned true->false"
                         ELSE IF outputVerified THEN "CLI output confirms disable operation"
                         ELSE "could not confirm disable transition from settings or output",
              warning |-> DriftWarning(r, verified, "Disable command succeeded but neither settings state nor CLI output provided unambiguous confirmation")]
    [] c.tool = "marketplace_add" ->
         LET verified == MarketplaceAddVerified(before.known, after.known)
         IN  [exitCode |-> r.exitCode, verified |-> verified,
              before |-> [keys |-> Cardinality(DOMAIN before.known), added |-> {}],
              after |-> [keys |-> Cardinality(DOMAIN after.known),
                         added |-> AddedKeys(before.known, after.known)],
              reason |-> IF verified THEN "new marketplace key detected" ELSE "no new key detected",
              warning |-> DriftWarning(r, verified, "CLI reported success but no new marketplace key appeared in known_marketplaces.json")]
    [] c.tool = "marketplace_update" ->
         LET verified == MarketplaceUpdateVerified(before.known, after.known, m, r)
             changed == Cardinality(ChangedTargets(before.known, after.known, m))
         IN  [exitCode |-> r.exitCode, verified |-> verified,
              before |-> [keys |-> Cardinality(DOMAIN before.known), changed |-> 0],
              after |-> [keys |-> Cardinality(DOMAIN after.known), changed |-> changed],
              reason |-> IF changed > 0 THEN "one or more marketplace state entries changed"
                         ELSE IF outputSuggestsNoopUpdate(r)
                              THEN "CLI output indicates no-op update (already up-to-date)"
                              ELSE "could not confirm update/no-op from state or CLI output",
              warning |-> DriftWarning(r, verified, "CLI reported success but marketplace state could not be confirmed from known_marketplaces.json")]
    [] c.tool = "marketplace_remove" ->
         LET verified == MarketplaceRemoveVerified(before.known, after.known, m)
         IN  [exitCode |-> r.exitCode, verified |-> verified,
              before |-> summarizeMarketplaceState(before.known, m),
              after |-> summarizeMarketplaceState(after.known, m),
              reason |-> IF verified THEN "marketplace key removed"
                         ELSE "marketplace key still present or missing before remove",
              warning |-> DriftWarning(r, verified, "CLI reported success but marketplace key still exists")]

\* `text.trim()` for the white space the outputs can hold.
RECURSIVE trimStart(_)
trimStart(text) ==
  IF Len(text) > 0 /\ text[1] \in {" ", "\n"} THEN trimStart(Tail(text)) ELSE text
RECURSIVE trimEnd(_)
trimEnd(text) ==
  IF Len(text) > 0 /\ text[Len(text)] \in {" ", "\n"} THEN trimEnd(SubSeq(text, 1, Len(text) - 1)) ELSE text
trim(text) == trimEnd(trimStart(text))

\* The "## CLI" section: the command, the exit code, and the trimmed stdout
\* and stderr, each shown only when something is left after trimming.
renderCommandResult(result) ==
  [command |-> result.command, exit_code |-> result.exitCode,
   stdout |-> trim(result.stdout), stderr |-> trim(result.stderr)]

\* The lines of the "## Verification" block; the warning line only when set.
formatVerificationBlock(input) ==
  [cli_exit |-> input.exitCode, verified |-> input.verified,
   state_before |-> input.before, state_after |-> input.after,
   reason |-> input.reason,
   hasWarning |-> input.warning # Null, warning |-> input.warning]

\* The reply of a mutating tool: CLI section, verification block, restart hint.
buildMutationReply(cliResult, verification) ==
  [kind |-> "mutation",
   command |-> renderCommandResult(cliResult).command,
   exit_code |-> renderCommandResult(cliResult).exit_code,
   stdout |-> renderCommandResult(cliResult).stdout,
   stderr |-> renderCommandResult(cliResult).stderr,
   block |-> formatVerificationBlock(verification),
   restartHint |-> cliResult.ok /\ verification.verified]

(* ------------------------------------------------- the external program *)
\* What one run of `claude plugin <install|uninstall|update|...>` can do to
\* installed_plugins.json: nothing, append a row, drop the canonical row,
\* delete a key, rewrite the canonical row. Any key, not only the target.
InstalledMoves(inst) ==
  {inst}
  \cup {[k \in DOMAIN inst \cup {key} |-> IF k = key THEN Append(RowsOf(inst, key), row) ELSE inst[k]] :
          key \in {k \in PluginKeys : Len(RowsOf(inst, k)) < MaxRows}, row \in RowValues}
  \cup {[k \in DOMAIN inst \ {key} |-> inst[k]] : key \in DOMAIN inst}
  \cup {[inst EXCEPT ![key] = Tail(@)] : key \in {k \in DOMAIN inst : Len(inst[k]) > 0}}
  \cup {[inst EXCEPT ![key] = <<row>> \o Tail(@)] :
          key \in {k \in DOMAIN inst : Len(inst[k]) > 0}, row \in RowValues}

\* What one run can do to the merged enabledPlugins settings.
EnabledMoves(map) ==
  {map}
  \cup {[k \in DOMAIN map \cup {key} |-> IF k = key THEN b ELSE map[k]] :
          key \in PluginKeys, b \in BOOLEAN}
  \cup {[k \in DOMAIN map \ {key} |-> map[k]] : key \in DOMAIN map}

\* What one run of `claude plugin marketplace ...` can do to known_marketplaces.json.
KnownMoves(map) ==
  {map}
  \cup {[k \in DOMAIN map \cup {key} |-> IF k = key THEN entry ELSE map[k]] :
          key \in MarketNames, entry \in MarketEntries}
  \cup {[k \in DOMAIN map \ {key} |-> map[k]] : key \in DOMAIN map}

\* Registries one CLI run can leave, by command family.
CliEffects(tool) ==
  IF tool \in {"plugin_install", "plugin_uninstall", "plugin_update"}
  THEN {[installed |-> i, enabled |-> enabled, known |-> known] : i \in InstalledMoves(installed)}
  ELSE IF tool \in {"plugin_enable", "plugin_disable"}
  THEN {[installed |-> installed, enabled |-> e, known |-> known] : e \in EnabledMoves(enabled)}
  ELSE {[installed |-> installed, enabled |-> enabled, known |-> k] : k \in KnownMoves(known)}

(* --------------------------------------------------------------- actions *)
Set(p, c) == call' = [call EXCEPT ![p] = c]

\* Arguments (plugin, marketplace) of the plugin tools.
PluginArgs == {<<"x@a", "">>, <<"x", "b">>, <<"x", "">>, <<"zz", "">>}
\* Argument of marketplace_update / marketplace_remove ("" = omitted).
MarketplaceArgs == {"", "a", "B", "c"}

\* The scope argument of plugin_update (Undefined = omitted).
ScopeArgs == {Undefined, "user", "project"}

\* Entry of a plugin tool: availability checks and target resolution.
StartPluginTool(p, tool, plugin, marketplace, scope, probe) ==
  /\ call[p].pc = "idle"
  /\ LET c == [IdleCall EXCEPT !.tool = tool, !.plugin = plugin, !.marketplace = marketplace,
                               !.scope = scope]
         resolved == resolvePluginTarget(plugin, marketplace)
     IN  IF PluginSystemMissing
         THEN Set(p, [c EXCEPT !.pc = "done", !.reply = MessageReply("Plugin system not found.", {})])
         ELSE IF ~isClaudeAvailable(probe)
         THEN Set(p, [c EXCEPT !.pc = "done", !.log = <<ProbeEvent(probe)>>,
                               !.reply = MessageReply("Claude CLI not available.", {})])
         ELSE IF ~resolved.ok
         THEN Set(p, [c EXCEPT !.pc = "done", !.log = <<ProbeEvent(probe)>> \o ResolveReads,
                               !.reply = MessageReply(resolved.reason, resolved.candidates)])
         ELSE Set(p, [c EXCEPT !.pc = "resolved", !.log = <<ProbeEvent(probe)>> \o ResolveReads,
                               !.pluginKey = resolved.target])
  /\ UNCHANGED <<installed, enabled, known, rootExists, files>>

\* Entry of a marketplace tool: availability checks only.
StartMarketplaceTool(p, tool, marketplace, probe) ==
  /\ call[p].pc = "idle"
  /\ LET c == [IdleCall EXCEPT !.tool = tool, !.marketplace = marketplace]
     IN  IF PluginSystemMissing
         THEN Set(p, [c EXCEPT !.pc = "done", !.reply = MessageReply("Plugin system not found.", {})])
         ELSE IF ~isClaudeAvailable(probe)
         THEN Set(p, [c EXCEPT !.pc = "done", !.log = <<ProbeEvent(probe)>>,
                               !.reply = MessageReply("Claude CLI not available.", {})])
         ELSE Set(p, [c EXCEPT !.pc = "resolved", !.log = <<ProbeEvent(probe)>>])
  /\ UNCHANGED <<installed, enabled, known, rootExists, files>>

plugin_install(p) ==
  \E a \in PluginArgs, probe \in SpawnOutcomes : StartPluginTool(p, "plugin_install", a[1], a[2], Undefined, probe)
plugin_uninstall(p) ==
  \E a \in PluginArgs, probe \in SpawnOutcomes : StartPluginTool(p, "plugin_uninstall", a[1], a[2], Undefined, probe)
plugin_update(p) ==
  \E a \in PluginArgs, scope \in ScopeArgs, probe \in SpawnOutcomes :
    StartPluginTool(p, "plugin_update", a[1], a[2], scope, probe)
plugin_enable(p) ==
  \E a \in PluginArgs, probe \in SpawnOutcomes : StartPluginTool(p, "plugin_enable", a[1], a[2], Undefined, probe)
plugin_disable(p) ==
  \E a \in PluginArgs, probe \in SpawnOutcomes : StartPluginTool(p, "plugin_disable", a[1], a[2], Undefined, probe)
marketplace_add(p) ==
  \E probe \in SpawnOutcomes : StartMarketplaceTool(p, "marketplace_add", "c", probe)
marketplace_update(p) ==
  \E m \in MarketplaceArgs, probe \in SpawnOutcomes : StartMarketplaceTool(p, "marketplace_update", m, probe)
marketplace_remove(p) ==
  \E m \in MarketplaceArgs \ {""}, probe \in SpawnOutcomes :
    StartMarketplaceTool(p, "marketplace_remove", m, probe)

\* Faulty variant: plugin_update goes on to the CLI without install rows.
ReadBeforeWithoutRowCheck(p) ==
  /\ call[p].pc = "resolved"
  /\ Set(p, [call[p] EXCEPT !.pc = "snapshot", !.before = Snapshot(call[p].tool),
                            !.log = @ \o SnapshotReads(call[p].tool)])
  /\ UNCHANGED <<installed, enabled, known, rootExists, files>>

\* The before-snapshot; plugin_update returns early for a plugin without rows.
ReadBefore(p) ==
  /\ call[p].pc = "resolved"
  /\ LET c == call[p]
         before == Snapshot(c.tool)
     IN  IF c.tool = "plugin_update" /\ Len(RowsOf(before.installed, c.pluginKey)) = 0
         THEN Set(p, [c EXCEPT !.pc = "done", !.before = before, !.log = @ \o SnapshotReads(c.tool),
                               !.reply = MessageReply("Plugin is not installed. Use plugin_install first.", {})])
         ELSE Set(p, [c EXCEPT !.pc = "snapshot", !.before = before, !.log = @ \o SnapshotReads(c.tool)])
  /\ UNCHANGED <<installed, enabled, known, rootExists, files>>

\* Faulty variant: a call that did not exit 0 ends the tool at once.
AfterCliPcStopOnFailure(cliResult) == IF cliResult.ok THEN "ran" ELSE "done"

\* Faulty variant: a call that did not exit 0 is attempted again.
AfterCliPcRetry(cliResult) == IF cliResult.ok THEN "ran" ELSE "snapshot"

\* Where a tool continues once runClaude has returned: straight on to the
\* after-snapshot, whatever the result.
AfterCliPc(cliResult) == "ran"

\* The blocking CLI call: the child may rewrite the registry, then returns.
RunCli(p) ==
  /\ call[p].pc = "snapshot"
  /\ \E spawn \in SpawnOutcomes, effect \in CliEffects(call[p].tool) :
       /\ installed' = effect.installed
       /\ enabled' = effect.enabled
       /\ known' = effect.known
       /\ LET cliResult == runClaude(CliArgs(call[p]), spawn)
          IN  Set(p, [call[p] EXCEPT !.pc = AfterCliPc(cliResult), !.cli = cliResult,
                                     !.spawnOptions = spawnOptions(CliOptions(call[p])),
                                     !.log = @ \o <<SpawnEvent(cliResult)>>])
  /\ UNCHANGED <<rootExists, files>>

\* The after-snapshot, the verdict and the reply.
Finish(p) ==
  /\ call[p].pc = "ran"
  /\ LET c == call[p]
         after == Snapshot(c.tool)
         verification == Verification(c, c.before, after)
     IN  Set(p, [c EXCEPT !.pc = "done", !.after = after, !.verification = verification,
                          !.log = @ \o SnapshotReads(c.tool),
                          !.reply = buildMutationReply(c.cli, verification)])
  /\ UNCHANGED <<installed, enabled, known, rootExists, files>>

(* ------------------------------------------------------------ update_all *)
\* Outcomes of the child processes update_all spawns.
BatchOutcomes ==
  {o \in SpawnOutcomes :
     \/ ~o.hasError /\ o.hasStatus /\ o.status = 0 /\ o.stderr = <<>> /\ o.stdout \in {<<>>, OutAlreadyUpToDate}
     \/ ~o.hasError /\ o.hasStatus /\ o.status = 1 /\ o.stdout = <<>>
     \/ o.hasError /\ o.message = ErrTimeout}

\* What `claude plugin marketplace update` can do to known_marketplaces.json.
BatchKnownMoves(map) ==
  {map}
  \cup {[map EXCEPT ![key].lastUpdated = "t2"] : key \in DOMAIN map}
  \cup {[k \in DOMAIN map \ {key} |-> map[k]] : key \in DOMAIN map}

\* What `claude plugin update <key>` can do to installed_plugins.json: touch
\* the canonical row of a key, or drop the key.
BatchInstalledMoves(inst, key) ==
  LET withRows == {k \in DOMAIN inst : Len(inst[k]) > 0}
  IN  {inst}
      \cup {[inst EXCEPT ![k] = <<[version |-> "1.1.0", lastUpdated |-> "t2"]>> \o Tail(@)] : k \in withRows}
      \cup {[inst EXCEPT ![k] = <<[@[1] EXCEPT !.lastUpdated = "t2"]>> \o Tail(@)] : k \in withRows \cap {key}}
      \cup {[k \in DOMAIN inst \ {key} |-> inst[k]]}

\* Faulty variant: the no-op phrase is looked at before the version.
PluginStatusNoopFirst(result, firstRow, afterFirst) ==
  IF ~result.ok THEN "failed"
  ELSE IF outputSuggestsNoopUpdate(result) THEN "latest"
  ELSE IF versionChanged(firstRow, afterFirst) THEN "updated"
  ELSE IF updatedChanged(firstRow, afterFirst) THEN "updated"
  ELSE "unverified"

\* The class update_all puts one plugin in, in the order of its branches.
PluginStatus(result, firstRow, afterFirst) ==
  IF ~result.ok THEN "failed"
  ELSE IF versionChanged(firstRow, afterFirst) THEN "updated"
  ELSE IF outputSuggestsNoopUpdate(result) THEN "latest"
  ELSE IF updatedChanged(firstRow, afterFirst) THEN "updated"
  ELSE "unverified"

\* `text.split("\n")[0]`
RECURSIVE firstLine(_)
firstLine(text) ==
  IF Len(text) = 0 \/ text[1] = "\n" THEN <<>> ELSE <<text[1]>> \o firstLine(Tail(text))

UnknownError == <<"u", "n", "k", "n", "o", "w", "n", " ", "e", "r", "r", "o", "r">>

\* `result.stderr.trim().split("\n")[0] || "unknown error"`
errLine(result) ==
  IF firstLine(trim(result.stderr)) = <<>> THEN UnknownError ELSE firstLine(trim(result.stderr))

\* What the line of one plugin shows besides its key: the error line of a
\* failed call, the versions of an update, else the version before.
PluginLine(status, result, firstRow, afterFirst) ==
  IF status = "failed" THEN errLine(result)
  ELSE IF status = "updated" /\ versionChanged(firstRow, afterFirst)
  THEN <<firstRow.version, afterFirst.version>>
  ELSE <<firstRow.version>>

\* Number of targets whose marketplace summary differs between the snapshots.
mpChanged(marketplacesBefore, marketplacesAfter) ==
  Cardinality({target \in DOMAIN marketplacesAfter :
                 summarizeMarketplaceState(marketplacesBefore, target)
                   # summarizeMarketplaceState(marketplacesAfter, target)})

\* Faulty variant: the marketplace phase is verified by the exit code alone.
mpVerifiedByExitCode(marketplacesBefore, marketplacesAfter, marketplaceCli) == marketplaceCli.ok

\* `mpTargets.length > 0 && (mpChanged > 0 || mpNoop)`
mpVerified(marketplacesBefore, marketplacesAfter, marketplaceCli) ==
  /\ DOMAIN marketplacesAfter # {}
  /\ \/ mpChanged(marketplacesBefore, marketplacesAfter) > 0
     \/ outputSuggestsNoopUpdate(marketplaceCli)

\* The line Phase 1 prints: the check mark with "<n> updated" or "all up to
\* date" whenever the call exited 0, else the cross, "failed" and the first
\* line of stderr.
MarketplaceLine(marketplaceCli, changed) ==
  IF marketplaceCli.ok
  THEN [success |-> TRUE, text |-> IF changed > 0 THEN "updated" ELSE "all up to date",
        exit |-> marketplaceCli.exitCode, err |-> <<>>]
  ELSE [success |-> FALSE, text |-> "failed", exit |-> marketplaceCli.exitCode,
        err |-> firstLine(trim(marketplaceCli.stderr))]

\* Faulty variant: unverified plugins do not count against the batch.
allPluginsVerifiedIgnoringUnverified(failed, unverified) == failed = 0

\* `failed === 0 && unverified === 0`
allPluginsVerified(failed, unverified) == failed = 0 /\ unverified = 0

\* The reply of update_all that stops before the plugin loop.
NoPluginsReply(b) ==
  [kind |-> "update_all", mpOk |-> b.mpOk, mpExit |-> b.mpExit, mpChanged |-> b.mpChanged,
   marketplaceLine |-> b.mpLine,
   hasVerification |-> FALSE, text |-> "No installed plugins to update."]

\* The reply of update_all after the loop: the Verification and Summary sections.
BatchReply(b) ==
  LET pluginsVerified == allPluginsVerified(b.failed, b.unverified)
  IN  [kind |-> "update_all", mpOk |-> b.mpOk, mpExit |-> b.mpExit, mpChanged |-> b.mpChanged,
       marketplaceLine |-> b.mpLine,
       hasVerification |-> TRUE,
       overall_verified |-> b.mpVerified /\ pluginsVerified,
       marketplaces_verified |-> b.mpVerified,
       plugins_verified |-> pluginsVerified,
       plugins_verified_count |-> b.total - b.failed - b.unverified,
       marketplaces_total |-> b.mpTargets,
       plugins_updated |-> b.updated,
       plugins_already_latest |-> b.alreadyLatest,
       plugins_failed |-> b.failed,
       plugins_unverified |-> b.unverified,
       total_plugins |-> b.total,
       pluginResults |-> b.pluginResults,
       unverifiedWarning |-> b.unverified > 0,
       restartHint |-> b.updated > 0]

\* The "## CLI" sections a reply holds: one in the reply buildMutationReply
\* builds, none in the text update_all assembles, which names no command and
\* quotes no stdout or stderr.
CliSections(reply) ==
  IF reply.kind = "mutation"
  THEN {[command |-> reply.command, exit_code |-> reply.exit_code,
         stdout |-> reply.stdout, stderr |-> reply.stderr]}
  ELSE {}

\* The verification blocks with verified, before, after and reason a reply
\* holds: update_all's "## Verification" section has three verdict lines and
\* no before, after or reason.
VerificationBlocks(reply) ==
  IF reply.kind = "mutation" THEN {reply.block} ELSE {}

\* What the warning lines of a reply of update_all are about: the one warning
\* the tool can print counts the plugins that could not be verified.
ReplyWarnings(reply) ==
  IF reply.hasVerification /\ reply.unverifiedWarning THEN {"plugins"} ELSE {}

\* Entry of update_all: the two availability checks.
update_all(p) ==
  /\ call[p].pc = "idle"
  /\ \E probe \in SpawnOutcomes :
       LET c == [IdleCall EXCEPT !.tool = "update_all"]
       IN  IF PluginSystemMissing
           THEN Set(p, [c EXCEPT !.pc = "done", !.reply = MessageReply("Plugin system not found.", {})])
           ELSE IF ~isClaudeAvailable(probe)
           THEN Set(p, [c EXCEPT !.pc = "done", !.log = <<ProbeEvent(probe)>>,
                                 !.reply = MessageReply("Claude CLI not available.", {})])
           ELSE Set(p, [c EXCEPT !.pc = "batch", !.log = <<ProbeEvent(probe)>>])
  /\ UNCHANGED <<installed, enabled, known, rootExists, files>>

\* Phase 1, first half: marketplacesBefore.
UpdateAllReadMarketplaces(p) ==
  /\ call[p].pc = "batch"
  /\ Set(p, [call[p] EXCEPT !.pc = "mpBefore", !.batch.marketplacesBefore = getKnownMarketplaces,
                            !.log = @ \o <<ReadEvent("getKnownMarketplaces")>>])
  /\ UNCHANGED <<installed, enabled, known, rootExists, files>>

\* Phase 1: `claude plugin marketplace update` for all marketplaces.
UpdateAllRunMarketplaces(p) ==
  /\ call[p].pc = "mpBefore"
  /\ \E spawn \in BatchOutcomes, after \in BatchKnownMoves(known) :
       /\ known' = after
       /\ LET marketplaceCli == runClaude(<<"plugin", "marketplace", "update">>, spawn)
          IN  Set(p, [call[p] EXCEPT !.pc = "mpRan", !.cli = marketplaceCli,
                                     !.spawnOptions = spawnOptions(<<>>),
                                     !.log = @ \o <<SpawnEvent(marketplaceCli)>>])
  /\ UNCHANGED <<installed, enabled, rootExists, files>>

\* Phase 1 verdict, then the one snapshot of installed_plugins.json Phase 2
\* works from; without installed plugins the tool returns here.
UpdateAllReadInstalled(p) ==
  /\ call[p].pc = "mpRan"
  /\ LET c == call[p]
         marketplacesAfter == getKnownMarketplaces
         installedBefore == getInstalledPlugins
         pluginKeys == DOMAIN installedBefore
         b == [c.batch EXCEPT
                 !.mpOk = c.cli.ok, !.mpExit = c.cli.exitCode,
                 !.mpTargets = Cardinality(DOMAIN marketplacesAfter),
                 !.mpChanged = mpChanged(c.batch.marketplacesBefore, marketplacesAfter),
                 !.mpVerified = mpVerified(c.batch.marketplacesBefore, marketplacesAfter, c.cli),
                 !.mpLine = MarketplaceLine(c.cli, mpChanged(c.batch.marketplacesBefore, marketplacesAfter)),
                 !.installedBefore = installedBefore,
                 !.total = Cardinality(pluginKeys),
                 !.pending = SortKeys(pluginKeys)]
         log == c.log \o <<ReadEvent("getKnownMarketplaces"), ReadEvent("getInstalledPlugins")>>
     IN  IF pluginKeys = {}
         THEN Set(p, [c EXCEPT !.pc = "done", !.batch = b, !.cli = NoResult, !.log = log,
                               !.reply = NoPluginsReply(b)])
         ELSE Set(p, [c EXCEPT !.pc = "loop", !.batch = b, !.cli = NoResult, !.log = log])
  /\ UNCHANGED <<installed, enabled, known, rootExists, files>>

\* Faulty variant: the before-state is read again ahead of each plugin update.
UpdateAllRunPluginRereading(p) ==
  /\ call[p].pc = "loop"
  /\ LET pluginKey == Head(call[p].batch.pending)
         firstRow == FirstRow(RowsOf(getInstalledPlugins, pluginKey))
         scope == UpdateScope(Undefined, firstRow)
         cliOptions == UpdateOptions(scope, firstRow, 120000)
     IN  \E spawn \in BatchOutcomes, after \in BatchInstalledMoves(installed, pluginKey) :
           /\ installed' = after
           /\ LET result == runClaude(<<"plugin", "update", pluginKey, "--scope", scope>>, spawn)
              IN  Set(p, [call[p] EXCEPT !.pc = "pluginRan", !.pluginKey = pluginKey, !.cli = result,
                                         !.batch.installedBefore = getInstalledPlugins,
                                         !.spawnOptions = spawnOptions(cliOptions),
                                         !.log = @ \o <<SpawnEvent(result)>>])
  /\ UNCHANGED <<enabled, known, rootExists, files>>

\* Phase 2, one iteration: `claude plugin update <key> --scope <scope>`.
UpdateAllRunPlugin(p) ==
  /\ call[p].pc = "loop"
  /\ LET pluginKey == Head(call[p].batch.pending)
         firstRow == FirstRow(RowsOf(call[p].batch.installedBefore, pluginKey))
         scope == UpdateScope(Undefined, firstRow)
         cliOptions == UpdateOptions(scope, firstRow, 120000)
     IN  \E spawn \in BatchOutcomes, after \in BatchInstalledMoves(installed, pluginKey) :
           /\ installed' = after
           /\ LET result == runClaude(<<"plugin", "update", pluginKey, "--scope", scope>>, spawn)
              IN  Set(p, [call[p] EXCEPT !.pc = "pluginRan", !.pluginKey = pluginKey, !.cli = result,
                                         !.spawnOptions = spawnOptions(cliOptions),
                                         !.log = @ \o <<SpawnEvent(result)>>])
  /\ UNCHANGED <<enabled, known, rootExists, files>>

\* Faulty variant: the loop ends at the first plugin whose update failed.
RemainingKeysStopOnFailure(result, pending) == IF result.ok THEN Tail(pending) ELSE <<>>

\* `for (const pluginKey of pluginKeys.sort())`: the keys still to visit once
\* one key is done, whatever the result of its update.
RemainingKeys(result, pending) == Tail(pending)

\* Faulty variant: a plugin at its latest version is also counted as updated.
TallyLatestAsUpdatedToo(count, status, class) ==
  IF status = class \/ (status = "latest" /\ class = "updated") THEN count + 1 ELSE count

\* `updated += 1` .. `unverified += 1`: one counter per branch, the counter
\* of the branch taken goes up by one.
Tally(count, status, class) == IF status = class THEN count + 1 ELSE count

\* Phase 2, rest of the iteration: re-read, classify, tally; after the last
\* key the Verification and Summary sections.
UpdateAllClassify(p) ==
  /\ call[p].pc = "pluginRan"
  /\ LET c == call[p]
         pluginKey == c.pluginKey
         firstRow == FirstRow(RowsOf(c.batch.installedBefore, pluginKey))
         afterFirst == FirstRow(RowsOf(getInstalledPlugins, pluginKey))
         status == PluginStatus(c.cli, firstRow, afterFirst)
         b == [c.batch EXCEPT
                 !.pending = RemainingKeys(c.cli, @),
                 !.updated = Tally(@, status, "updated"),
                 !.alreadyLatest = Tally(@, status, "latest"),
                 !.failed = Tally(@, status, "failed"),
                 !.unverified = Tally(@, status, "unverified"),
                 !.pluginResults = Append(@, [key |-> pluginKey, status |-> status,
                                              detail |-> PluginLine(status, c.cli, firstRow, afterFirst),
                                              verified |-> status \in {"updated", "latest"}])]
         log == c.log \o <<ReadEvent("getInstalledPlugins")>>
     IN  IF b.pending = <<>>
         THEN Set(p, [c EXCEPT !.pc = "done", !.batch = b, !.cli = NoResult, !.pluginKey = "",
                               !.log = log, !.reply = BatchReply(b)])
         ELSE Set(p, [c EXCEPT !.pc = "loop", !.batch = b, !.cli = NoResult, !.pluginKey = "",
                               !.log = log])
  /\ UNCHANGED <<installed, enabled, known, rootExists, files>>

(* -------------------------------------------------------- read-only tools *)
\* Collation rank of the letters of names and marketplaces (localeCompare).
LocaleRank(c) ==
  CASE c = "a" -> 1
    [] c = "B" -> 2
    [] c = "b" -> 2
    [] c = "x" -> 24
    [] c = "y" -> 25
    [] c = "z" -> 26

\* a.localeCompare(b): -1, 0 or 1.
RECURSIVE localeCompare(_, _)
localeCompare(a, b) ==
  IF Len(a) = 0 /\ Len(b) = 0 THEN 0
  ELSE IF Len(a) = 0 THEN -1
  ELSE IF Len(b) = 0 THEN 1
  ELSE IF LocaleRank(a[1]) < LocaleRank(b[1]) THEN -1
  ELSE IF LocaleRank(a[1]) > LocaleRank(b[1]) THEN 1
  ELSE localeCompare(Tail(a), Tail(b))

\* Faulty variant: installed rows are not put first.
SearchCompareByInstallsOnly(a, b) ==
  IF Installs(b) # Installs(a) THEN Installs(b) - Installs(a)
  ELSE localeCompare(NameChars(a), NameChars(b))

\* The comparator of sortPluginsForSearch: negative, zero or positive.
SearchCompare(a, b) ==
  IF IsInstalled(a) /\ ~IsInstalled(b) THEN -1
  ELSE IF ~IsInstalled(a) /\ IsInstalled(b) THEN 1
  ELSE IF Installs(b) # Installs(a) THEN Installs(b) - Installs(a)
  ELSE localeCompare(NameChars(a), NameChars(b))

\* Stable insertion of row k behind the rows that do not sort after it.
InsertSorted(sorted, k, after) ==
  LET later == {i \in DOMAIN sorted : i \in after}
      pos == IF later = {} THEN Len(sorted) + 1
             ELSE CHOOSE i \in later : \A j \in later : i <= j
  IN  SubSeq(sorted, 1, pos - 1) \o <<k>> \o SubSeq(sorted, pos, Len(sorted))

\* sortPluginsForSearch: a stable sort by SearchCompare.
RECURSIVE sortPluginsForSearch(_)
sortPluginsForSearch(rows) ==
  IF Len(rows) = 0 THEN <<>>
  ELSE LET sorted == sortPluginsForSearch(SubSeq(rows, 1, Len(rows) - 1))
           k == rows[Len(rows)]
       IN  InsertSorted(sorted, k, {i \in DOMAIN sorted : SearchCompare(k, sorted[i]) < 0})

\* `rows.slice(0, limit)`
slice(rows, limit) == SubSeq(rows, 1, IF limit < Len(rows) THEN limit ELSE Len(rows))

\* `args.limit ?? 20`
DefaultLimit == 20

\* The haystack of a row: name, description and category (when the row has
\* them) and marketplace joined by blanks, lower-cased (the catalogs of the
\* model carry no author or tags).
haystack(key) ==
  toLowerCase(NameChars(key)
              \o (IF Description(key) # <<>> THEN <<" ">> \o Description(key) ELSE <<>>)
              \o (IF Category(key) # <<>> THEN <<" ">> \o Category(key) ELSE <<>>)
              \o <<" ">> \o MarketplaceChars(key))

\* Faulty variant: the rows of every catalog directory, parsed or not.
SearchRowsOfEveryCatalog(query, category, marketplace, installed_only, limit) ==
  LET q == toLowerCase(trim(Chars(query)))
      cat == toLowerCase(trim(Chars(category)))
      mp == toLowerCase(trim(Chars(marketplace)))
      all == {PublishedRows[i] : i \in DOMAIN PublishedRows}
      byQuery == IF q # <<>> THEN {k \in all : includes(haystack(k), q)} ELSE all
      byCategory == IF cat # <<>> THEN {k \in byQuery : toLowerCase(Category(k)) = cat} ELSE byQuery
      byMarketplace == IF mp # <<>> THEN {k \in byCategory : toLowerCase(MarketplaceChars(k)) = mp}
                       ELSE byCategory
      byInstalled == IF installed_only THEN {k \in byMarketplace : IsInstalled(k)} ELSE byMarketplace
  IN  slice(sortPluginsForSearch(FilterRows(PublishedRows, byInstalled)),
            IF limit = 0 THEN DefaultLimit ELSE limit)

\* The rows plugin_search returns for its arguments (limit 0 = not given).
SearchRows(query, category, marketplace, installed_only, limit) ==
  LET q == toLowerCase(trim(Chars(query)))
      cat == toLowerCase(trim(Chars(category)))
      mp == toLowerCase(trim(Chars(marketplace)))
      all == {CatalogRows[i] : i \in DOMAIN CatalogRows}
      byQuery == IF q # <<>> THEN {k \in all : includes(haystack(k), q)} ELSE all
      byCategory == IF cat # <<>> THEN {k \in byQuery : toLowerCase(Category(k)) = cat} ELSE byQuery
      byMarketplace == IF mp # <<>> THEN {k \in byCategory : toLowerCase(MarketplaceChars(k)) = mp}
                       ELSE byCategory
      byInstalled == IF installed_only THEN {k \in byMarketplace : IsInstalled(k)} ELSE byMarketplace
  IN  slice(sortPluginsForSearch(FilterRows(CatalogRows, byInstalled)),
            IF limit = 0 THEN DefaultLimit ELSE limit)

\* A read-only tool returning its listing.
ListingReply(kind, rows) == [kind |-> kind, rows |-> rows]

\* Faulty variant: a read-only tool saves a settings entry for every installed
\* key on its way out.
ReturnAtOnceSavingSettings(p, c, log, reply) ==
  /\ call[p].pc = "idle"
  /\ Set(p, [c EXCEPT !.pc = "done", !.log = log, !.reply = reply])
  /\ enabled' = [k \in DOMAIN installed \cup DOMAIN enabled |->
                   IF k \in DOMAIN enabled THEN enabled[k] ELSE TRUE]
  /\ UNCHANGED <<installed, known, rootExists, files>>

\* A read-only tool that returns in one step from the idle state.
ReturnAtOnce(p, c, log, reply) ==
  /\ call[p].pc = "idle"
  /\ Set(p, [c EXCEPT !.pc = "done", !.log = log, !.reply = reply])
  /\ UNCHANGED <<installed, enabled, known, rootExists, files>>

\* Limits a caller passes (0 = not given).
SearchLimits == {0, 1, 2}

plugin_search(p) ==
  \E query \in {"", "x", "b"}, category \in {"", "c"}, marketplace \in {"", "B"},
     installed_only \in BOOLEAN, limit \in SearchLimits :
    LET c == [IdleCall EXCEPT !.tool = "plugin_search",
                              !.args = [query |-> query, category |-> category, marketplace |-> marketplace,
                                        installed_only |-> installed_only, limit |-> limit]]
    IN
    IF PluginSystemMissing
    THEN ReturnAtOnce(p, c, <<>>,
           MessageReply("Plugin system not found. Run Claude Code once so ~/.claude/plugins is initialized.", {}))
    ELSE LET rows == SearchRows(query, category, marketplace, installed_only, limit)
         IN  ReturnAtOnce(p, c, <<ReadEvent("getAvailablePlugins")>>,
                          IF Len(rows) = 0 THEN MessageReply("No plugins matched.", {})
                          ELSE ListingReply("search", rows))

\* Arguments (plugin, marketplace) of plugin_info.
InfoArgs ==
  PluginArgs \cup {<<"x@", "">>, <<"x@b", "">>, <<"x@a", "B">>, <<"y@a", "">>, <<"", "">>}

InfoCall(a) == [IdleCall EXCEPT !.tool = "plugin_info", !.plugin = a[1], !.marketplace = a[2]]

plugin_info(p) ==
  \E a \in InfoArgs :
    IF PluginSystemMissing
    THEN ReturnAtOnce(p, InfoCall(a), <<>>, MessageReply("Plugin system not found.", {}))
    ELSE LET matches == MatchingEntries(MergedView, a[1], a[2])
             target == matches[1]
         IN  ReturnAtOnce(p, InfoCall(a), ResolveReads,
               IF Len(matches) = 0 THEN MessageReply("No plugin matched", {})
               ELSE IF Len(matches) > 1
               THEN MessageReply("Multiple plugins matched. Specify plugin@marketplace:",
                                 {matches[i].key : i \in DOMAIN matches})
               ELSE [kind |-> "info", key |-> target.key,
                     installed |-> target.installed,
                     version |-> FirstRow(RowsOf(getInstalledPlugins, target.key)).version,
                     installs |-> target.installs,
                     description |-> target.description,
                     tags |-> target.tags])

\* The comparator of plugin_list for its sort mode.
ListCompare(a, b, sort) ==
  IF sort = "name" THEN localeCompare(NameChars(a), NameChars(b))
  ELSE IF localeCompare(MarketplaceChars(a), MarketplaceChars(b)) # 0
  THEN localeCompare(MarketplaceChars(a), MarketplaceChars(b))
  ELSE localeCompare(NameChars(a), NameChars(b))

\* `rows.sort(comparator)`: stable.
RECURSIVE sortInstalled(_, _)
sortInstalled(rows, sort) ==
  IF Len(rows) = 0 THEN <<>>
  ELSE LET sorted == sortInstalled(SubSeq(rows, 1, Len(rows) - 1), sort)
           k == rows[Len(rows)]
       IN  InsertSorted(sorted, k, {i \in DOMAIN sorted : ListCompare(k, sorted[i], sort) < 0})

\* `(row.marketplace ?? "").toLowerCase() === marketplace`, then the sort mode.
ListRows(marketplace, sort) ==
  LET mp == toLowerCase(trim(Chars(marketplace)))
      rows == summarizeInstalled(getInstalledPlugins)
      keep == IF mp # <<>>
              THEN {rows[i] : i \in {j \in DOMAIN rows : toLowerCase(MarketplaceChars(rows[j])) = mp}}
              ELSE {rows[i] : i \in DOMAIN rows}
  IN  sortInstalled(FilterRows(rows, keep), sort)

plugin_list(p) ==
  \E marketplace \in {"", "a", "B"}, sort \in {"marketplace", "name"} :
    IF PluginSystemMissing
    THEN ReturnAtOnce(p, [IdleCall EXCEPT !.tool = "plugin_list"], <<>>, MessageReply("Plugin system not found.", {}))
    ELSE LET rows == ListRows(marketplace, sort)
         IN  ReturnAtOnce(p, [IdleCall EXCEPT !.tool = "plugin_list"], <<ReadEvent("getInstalledPlugins")>>,
                          IF Len(rows) = 0
                          THEN MessageReply("No installed plugins matched your filters.", {})
                          ELSE ListingReply("list", rows))

\* plugin_status: after the root check it runs the version probe, then reads.
plugin_status(p) ==
  \E probe \in SpawnOutcomes :
    IF PluginSystemMissing
    THEN ReturnAtOnce(p, [IdleCall EXCEPT !.tool = "plugin_status"], <<>>,
           MessageReply("Plugin system not found. Run Claude Code once to initialize ~/.claude/plugins.", {}))
    ELSE ReturnAtOnce(p, [IdleCall EXCEPT !.tool = "plugin_status"],
           <<ProbeEvent(probe), ReadEvent("getInstalledPlugins"), ReadEvent("getKnownMarketplaces"),
             ReadEvent("getAllMarketplaceCatalogs"), ReadEvent("getConfig")>>,
           [kind |-> "status",
            claude_cli_available |-> isClaudeAvailable(probe),
            installed_plugins |-> Len(summarizeInstalled(getInstalledPlugins)),
            known_marketplaces |-> Cardinality(DOMAIN getKnownMarketplaces),
            catalogs_loaded |-> Cardinality(CatalogMarkets),
            sync_mode |-> IF "sync_mode" \in DOMAIN getConfig THEN getConfig.sync_mode ELSE "unknown",
            rows |-> SortNames(DOMAIN getKnownMarketplaces \cup CatalogMarkets)])

marketplace_list(p) ==
  IF PluginSystemMissing
  THEN ReturnAtOnce(p, [IdleCall EXCEPT !.tool = "marketplace_list"], <<>>, MessageReply("Plugin system not found.", {}))
  ELSE LET names == DOMAIN getKnownMarketplaces \cup CatalogMarkets
       IN  ReturnAtOnce(p, [IdleCall EXCEPT !.tool = "marketplace_list"],
                        <<ReadEvent("getKnownMarketplaces"), ReadEvent("getAllMarketplaceCatalogs")>>,
                        IF names = {} THEN MessageReply("No marketplaces registered.", {})
                        ELSE ListingReply("marketplaces", SortNames(names)))

(* -------------------------------------------------------- specifications *)
\* Rows and entries the registry holds when a call starts.
InitRows == {[version |-> "1.0.0", lastUpdated |-> "t1"]}
InitEntries == {[lastUpdated |-> "t1", repo |-> "o/r", url |-> Undefined]}

InitInstalled == PartialMaps(PluginKeys, SeqsUpTo(InitRows, MaxRows))
InitEnabled == PartialMaps(PluginKeys, BOOLEAN)
InitKnown == PartialMaps(MarketNames, InitEntries)

\* The registry one plugin x@a installed from the one marketplace a leaves.
BaseInstalled == [k \in {"x@a"} |-> <<[version |-> "1.0.0", lastUpdated |-> "t1"]>>]
BaseEnabled == [k \in {"x@a"} |-> TRUE]
BaseKnown == [k \in {"a"} |-> [lastUpdated |-> "t1", repo |-> "o/r", url |-> Undefined]]

InitRegistry(I, E, K) ==
  /\ rootExists = TRUE
  /\ files = FilesOk
  /\ installed \in I
  /\ enabled \in E
  /\ known \in K
  /\ call = [p \in Procs |-> IdleCall]

\* The data root is missing: every accessor yields its empty default.
InitNoRoot ==
  /\ rootExists = FALSE
  /\ files = FilesAbsent
  /\ installed = EmptyMap
  /\ enabled = EmptyMap
  /\ known = EmptyMap
  /\ call = [p \in Procs |-> IdleCall]

\* One tool call on a registry that varies in one of its files.
Init ==
  \/ InitRegistry(InitInstalled, {BaseEnabled}, {BaseKnown})
  \/ InitRegistry({BaseInstalled}, InitEnabled, {BaseKnown})
  \/ InitRegistry({BaseInstalled}, {BaseEnabled}, InitKnown)
  \/ InitNoRoot

Next ==
  \E p \in Procs :
    \/ plugin_install(p)
    \/ plugin_uninstall(p)
    \/ plugin_update(p)
    \/ plugin_enable(p)
    \/ plugin_disable(p)
    \/ marketplace_add(p)
    \/ marketplace_update(p)
    \/ marketplace_remove(p)
    \/ ReadBefore(p)
    \/ RunCli(p)
    \/ Finish(p)

Spec == Init /\ [][Next]_vars

\* Three installed plugins, one row each, from the one marketplace a.
BatchInstalled ==
  [k \in {"x@a", "x@B", "y@a"} |-> <<[version |-> "1.0.0", lastUpdated |-> "t1"]>>]

\* One call of any of the tools, update_all included, on a registry with
\* three, one or no installed plugins, or without data root.
InitAll ==
  \/ InitRegistry({BatchInstalled, BaseInstalled, EmptyMap}, {BaseEnabled}, {BaseKnown})
  \/ InitRegistry({BaseInstalled}, {BaseEnabled}, {EmptyMap})
  \/ InitNoRoot

NextAll ==
  \/ Next
  \/ \E p \in Procs :
       \/ plugin_search(p)
       \/ plugin_info(p)
       \/ plugin_list(p)
       \/ plugin_status(p)
       \/ marketplace_list(p)
       \/ update_all(p)
       \/ UpdateAllReadMarketplaces(p)
       \/ UpdateAllRunMarketplaces(p)
       \/ UpdateAllReadInstalled(p)
       \/ UpdateAllRunPlugin(p)
       \/ UpdateAllClassify(p)

SpecAll == InitAll /\ [][NextAll]_vars

(* ------------------------------------------------ faulty registry files *)
\* The health of the registry files a read-only call can meet: the four JSON
\* files in any state, the catalog of marketplace a in any state, that of B
\* present or not parseable.
InitFileStates ==
  {f \in [known : FileStates, installed : FileStates, config : FileStates, counts : FileStates,
          catalogs : [CatalogDirs -> FileStates]] :
     f.catalogs["B"] \in {"ok", "invalid"}}

\* One read-only call on a data root whose files can be missing or broken.
InitFiles ==
  /\ rootExists = TRUE
  /\ files \in InitFileStates
  /\ installed = BaseInstalled
  /\ enabled = BaseEnabled
  /\ known = BaseKnown
  /\ call = [p \in Procs |-> IdleCall]

NextFiles ==
  \E p \in Procs :
    \/ plugin_search(p)
    \/ plugin_info(p)
    \/ plugin_list(p)
    \/ plugin_status(p)
    \/ marketplace_list(p)

SpecFiles == InitFiles /\ [][NextFiles]_vars

(* ------------------------------------------- two calls in flight at once *)
\* The host can have a second tool call in flight while the first awaits.
RaceProcs == {1, 2}

\* Faulty variant: the child is started without blocking (spawn, not spawnSync).
EventLoopFreeAsync == TRUE

\* spawnSync blocks the one JavaScript thread until the child has exited or
\* has been killed at the timeout: while a call is inside runClaude no other
\* code of the module runs.
EventLoopFree == \A q \in RaceProcs : call[q].pc # "cli"

\* Outcomes of the child of `claude plugin install`: exit 0, exit 1, never
\* started (ENOENT), killed at the timeout.
RaceOutcomes ==
  {o \in SpawnOutcomes :
     \/ ~o.hasError /\ o.hasStatus /\ o.stdout = <<>> /\ o.stderr \in {<<>>, ErrFailed}
     \/ o.hasError}

\* What the child can have done to installed_plugins.json when spawnSync
\* returns: a child that was never started has done nothing; one that ran can
\* have added a row for x@a, whatever its exit code.
RaceEffects(spawn) ==
  IF spawn.hasError /\ spawn.message = ErrSpawn
  THEN {installed}
  ELSE {installed}
       \cup {[k \in DOMAIN installed \cup {"x@a"} |->
                IF k = "x@a" THEN Append(RowsOf(installed, "x@a"), row) ELSE installed[k]] :
               row \in {r \in InitRows : Len(RowsOf(installed, "x@a")) < MaxRows}}

\* Entry of plugin_install for the key x@a, up to the resolved target.
RaceInstall(p) ==
  /\ EventLoopFree
  /\ \E probe \in SpawnOutcomes : StartPluginTool(p, "plugin_install", "x@a", "", Undefined, probe)

\* `await getInstalledPlugins()` before the CLI call.
RaceReadBefore(p) == EventLoopFree /\ ReadBefore(p)

\* runClaude is entered: spawnSync starts the child and blocks.
CliStart(p) ==
  /\ EventLoopFree
  /\ call[p].pc = "snapshot"
  /\ Set(p, [call[p] EXCEPT !.pc = "cli"])
  /\ UNCHANGED <<installed, enabled, known, rootExists, files>>

\* spawnSync returns: the child has exited or was killed; runClaude builds
\* its result from the outcome.
CliExit(p) ==
  /\ call[p].pc = "cli"
  /\ \E spawn \in RaceOutcomes : \E effect \in RaceEffects(spawn) :
       /\ installed' = effect
       /\ LET cliResult == runClaude(CliArgs(call[p]), spawn)
          IN  Set(p, [call[p] EXCEPT !.pc = AfterCliPc(cliResult), !.cli = cliResult,
                                     !.spawnOptions = spawnOptions(CliOptions(call[p])),
                                     !.log = @ \o <<SpawnEvent(cliResult)>>])
  /\ UNCHANGED <<enabled, known, rootExists, files>>

\* `await getInstalledPlugins()` after the CLI call, the verdict, the reply.
RaceFinish(p) == EventLoopFree /\ Finish(p)

\* Two calls of plugin_install for x@a, with x@a not installed or installed once.
InitRace ==
  /\ rootExists = TRUE
  /\ files = FilesOk
  /\ installed \in {EmptyMap, BaseInstalled}
  /\ enabled = BaseEnabled
  /\ known = BaseKnown
  /\ call = [p \in RaceProcs |-> IdleCall]

NextRace ==
  \E p \in RaceProcs :
    \/ RaceInstall(p)
    \/ RaceReadBefore(p)
    \/ CliStart(p)
    \/ CliExit(p)
    \/ RaceFinish(p)

SpecRace == InitRace /\ [][NextRace]_vars

(* ------------------------------------------------------- scoped installs *)
\* Install rows with their optional scope and project path.
ScopedRows ==
  [version : {"1.0.0"}, lastUpdated : {"t1"},
   scope : {Undefined, "user", "project"}, projectPath : {Undefined, "/p"}]

\* One call of plugin_update or update_all on x@a installed with any such
\* row, or with a row that has neither field.
InitScope ==
  /\ rootExists = TRUE
  /\ files = FilesOk
  /\ installed \in {[k \in {"x@a"} |-> <<row>>] : row \in ScopedRows} \cup {BaseInstalled}
  /\ enabled = BaseEnabled
  /\ known = BaseKnown
  /\ call = [p \in Procs |-> IdleCall]

NextScope ==
  \E p \in Procs :
    \/ plugin_update(p)
    \/ ReadBefore(p)
    \/ RunCli(p)
    \/ Finish(p)
    \/ update_all(p)
    \/ UpdateAllReadMarketplaces(p)
    \/ UpdateAllRunMarketplaces(p)
    \/ UpdateAllReadInstalled(p)
    \/ UpdateAllRunPlugin(p)
    \/ UpdateAllClassify(p)

SpecScope == InitScope /\ [][NextScope]_vars

(* ---------------------------------------------------------------- claims *)
\* A call of tool `tool` that invoked the CLI and has returned its reply.
Mutated(p, tool) ==
  call[p].pc = "done" /\ call[p].tool = tool /\ call[p].reply.kind = "mutation"

\* The reported verdict and warning of a returned mutation.
Verified(p) == call[p].reply.block.verified
Warned(p) == call[p].reply.block.hasWarning

\* Row counts of the resolved key in the two snapshots.
BeforeCount(p) == Len(RowsOf(call[p].before.installed, call[p].pluginKey))
AfterCount(p) == Len(RowsOf(call[p].after.installed, call[p].pluginKey))

\* Canonical rows of the resolved key in the two snapshots.
BeforeFirst(p) == FirstRow(RowsOf(call[p].before.installed, call[p].pluginKey))
AfterFirst(p) == FirstRow(RowsOf(call[p].after.installed, call[p].pluginKey))

\* The lower-cased combined output holds the phrase.
OutputHas(p, phrase) == includes(toLowerCase(combinedOutput(call[p].cli)), phrase)
OutputHasNoopPhrase(p) == \E phrase \in NoopPhrases : OutputHas(p, phrase)

\* C1: whenever the CLI result of a mutating tool has ok = false, the
\* reported verified flag is false, whatever the registry or the output shows.
C1_FailureAlwaysWins ==
  \A p \in Procs : \A tool \in MutatingTools :
    (Mutated(p, tool) /\ ~call[p].cli.ok) => ~Verified(p)

\* C2: the verification block carries a drift warning exactly when the CLI
\* result has ok = true and the verdict is verified = false.
C2_DriftWarningIff ==
  \A p \in Procs : \A tool \in MutatingTools :
    Mutated(p, tool) => (Warned(p) <=> (call[p].cli.ok /\ ~Verified(p)))

\* C2 witness: a removal the CLI reported as done whose key is still there.
C2_Witness ==
  \E p \in Procs :
    /\ Mutated(p, "marketplace_remove")
    /\ call[p].cli.ok /\ ~Verified(p) /\ Warned(p)

\* C3: plugin_install is verified exactly when the row count of the key grew;
\* 0 -> 1 rows with ok gives the reason "install row count increased", equal
\* counts with ok give verified = false and a drift warning.
C3_InstallVerdict ==
  \A p \in Procs :
    Mutated(p, "plugin_install") =>
      /\ Verified(p) <=> (AfterCount(p) > BeforeCount(p))
      /\ (BeforeCount(p) = 0 /\ AfterCount(p) = 1 /\ call[p].cli.ok) =>
           (Verified(p) /\ call[p].reply.block.reason = "install row count increased")
      /\ (BeforeCount(p) = AfterCount(p) /\ call[p].cli.ok) => (~Verified(p) /\ Warned(p))

\* C3 witness: an install that took the key from no row to one row.
C3_Witness ==
  \E p \in Procs :
    /\ Mutated(p, "plugin_install") /\ call[p].cli.ok
    /\ BeforeCount(p) = 0 /\ AfterCount(p) = 1 /\ Verified(p)

\* C4: plugin_uninstall is verified exactly when the row count of the key
\* shrank; a key without rows before is never verified as uninstalled.
C4_UninstallVerdict ==
  \A p \in Procs :
    Mutated(p, "plugin_uninstall") =>
      /\ Verified(p) <=> (AfterCount(p) < BeforeCount(p))
      /\ BeforeCount(p) = 0 => ~Verified(p)

\* C4 witness: an uninstall of a key without rows that ends without rows.
C4_Witness ==
  \E p \in Procs :
    /\ Mutated(p, "plugin_uninstall") /\ call[p].cli.ok
    /\ BeforeCount(p) = 0 /\ AfterCount(p) = 0 /\ ~Verified(p)

\* C5: plugin_update on an installed plugin is verified exactly when the
\* canonical row's version differs, or its lastUpdated differs, or the output
\* holds a no-op phrase (case-insensitively); unchanged rows with "already up
\* to date" in the output give verified = true with the no-op reason.
C5_UpdateVerdict ==
  \A p \in Procs :
    Mutated(p, "plugin_update") =>
      /\ Verified(p) <=>
           \/ BeforeFirst(p).version # AfterFirst(p).version
           \/ BeforeFirst(p).lastUpdated # AfterFirst(p).lastUpdated
           \/ OutputHasNoopPhrase(p)
      /\ ( /\ BeforeFirst(p).version = AfterFirst(p).version
           /\ BeforeFirst(p).lastUpdated = AfterFirst(p).lastUpdated
           /\ OutputHas(p, PhraseAlreadyUpToDate) ) =>
           /\ Verified(p)
           /\ call[p].reply.block.reason = "CLI output indicates already at latest version"

\* C5 witness: an update that changed nothing and printed "Already Up To Date".
C5_Witness ==
  \E p \in Procs :
    /\ Mutated(p, "plugin_update") /\ call[p].cli.ok
    /\ BeforeFirst(p) = AfterFirst(p)
    /\ call[p].cli.stdout = OutAlreadyUpToDate
    /\ Verified(p)

\* The enabled flag of the resolved key held `b` in the snapshot.
FlagIs(map, key, b) == key \in DOMAIN map /\ map[key] = b

\* C6: plugin_enable is verified exactly when the enabled map went from false
\* to true for the key, or the output holds "enable" and the plugin key.
C6_EnableVerdict ==
  \A p \in Procs :
    Mutated(p, "plugin_enable") =>
      ( Verified(p) <=>
          \/ /\ FlagIs(call[p].before.enabled, call[p].pluginKey, FALSE)
             /\ FlagIs(call[p].after.enabled, call[p].pluginKey, TRUE)
          \/ /\ OutputHas(p, KeywordEnable)
             /\ OutputHas(p, toLowerCase(KeyChars(call[p].pluginKey))) )

\* C6 witness: an enable confirmed by the flag alone, the output being silent.
C6_Witness ==
  \E p \in Procs :
    /\ Mutated(p, "plugin_enable") /\ Verified(p)
    /\ FlagIs(call[p].before.enabled, call[p].pluginKey, FALSE)
    /\ FlagIs(call[p].after.enabled, call[p].pluginKey, TRUE)
    /\ ~OutputHas(p, KeywordEnable)

\* C7: plugin_disable is verified exactly when the enabled map went from true
\* to false for the key, or the output holds "disable" and the plugin key.
C7_DisableVerdict ==
  \A p \in Procs :
    Mutated(p, "plugin_disable") =>
      ( Verified(p) <=>
          \/ /\ FlagIs(call[p].before.enabled, call[p].pluginKey, TRUE)
             /\ FlagIs(call[p].after.enabled, call[p].pluginKey, FALSE)
          \/ /\ OutputHas(p, KeywordDisable)
             /\ OutputHas(p, toLowerCase(KeyChars(call[p].pluginKey))) )

\* C7 witness: a disable confirmed by the output alone, the flag unchanged.
C7_Witness ==
  \E p \in Procs :
    /\ Mutated(p, "plugin_disable") /\ Verified(p)
    /\ call[p].before.enabled = call[p].after.enabled
    /\ OutputHas(p, KeywordDisable)

\* C8: marketplace_remove is verified exactly when the named key was present
\* before and is absent after; still present with ok gives verified = false
\* and a drift warning.
C8_RemoveVerdict ==
  \A p \in Procs :
    Mutated(p, "marketplace_remove") =>
      /\ Verified(p) <=> ( /\ call[p].marketplace \in DOMAIN call[p].before.known
                           /\ call[p].marketplace \notin DOMAIN call[p].after.known )
      /\ ( /\ call[p].marketplace \in DOMAIN call[p].before.known
           /\ call[p].marketplace \in DOMAIN call[p].after.known
           /\ call[p].cli.ok ) => (~Verified(p) /\ Warned(p))

\* C8 witness: a removal that took the named key out of the registry.
C8_Witness ==
  \E p \in Procs :
    /\ Mutated(p, "marketplace_remove") /\ Verified(p)
    /\ call[p].marketplace \in DOMAIN call[p].before.known
    /\ call[p].marketplace \notin DOMAIN known

\* The marketplaces an update call targets: the named one, or all known after.
TargetsOf(p) ==
  IF call[p].marketplace # "" THEN {call[p].marketplace} ELSE DOMAIN call[p].after.known

\* C9: marketplace_update is verified exactly when some target exists after
\* the call and (the summary of an existing target changed or the output holds
\* a no-op phrase); without an existing target it is never verified.
C9_MarketplaceUpdateVerdict ==
  \A p \in Procs :
    Mutated(p, "marketplace_update") =>
      LET existing == TargetsOf(p) \cap DOMAIN call[p].after.known
      IN  /\ Verified(p) <=>
               /\ existing # {}
               /\ \/ \E t \in existing :
                       summarizeMarketplaceState(call[p].before.known, t)
                         # summarizeMarketplaceState(call[p].after.known, t)
                  \/ OutputHasNoopPhrase(p)
          /\ existing = {} => ~Verified(p)

\* C9 witness: an update whose no-op phrase does not verify it, no target existing.
C9_Witness ==
  \E p \in Procs :
    /\ Mutated(p, "marketplace_update") /\ call[p].cli.ok
    /\ TargetsOf(p) \cap DOMAIN call[p].after.known = {}
    /\ OutputHasNoopPhrase(p) /\ ~Verified(p)

\* C10: marketplace_add is verified exactly when some key is present after the
\* call that was absent before it.
C10_AddVerdict ==
  \A p \in Procs :
    Mutated(p, "marketplace_add") =>
      ( Verified(p) <=> (DOMAIN call[p].after.known \ DOMAIN call[p].before.known # {}) )

\* C10 witness: an add after which a new key is in the registry.
C10_Witness ==
  \E p \in Procs :
    /\ Mutated(p, "marketplace_add") /\ Verified(p)
    /\ DOMAIN known \ DOMAIN call[p].before.known # {}

\* A call of update_all that went through the plugin loop and has returned.
BatchDone(p) ==
  call[p].pc = "done" /\ call[p].tool = "update_all" /\ call[p].reply.kind = "update_all"
    /\ call[p].reply.hasVerification

\* Number of per-plugin results of the reply with the given status.
CountStatus(p, status) ==
  Cardinality({i \in DOMAIN call[p].reply.pluginResults : call[p].reply.pluginResults[i].status = status})

\* The iteration of update_all that classifies the plugin whose CLI call returned.
ClassifyStep(p) == call[p].pc = "pluginRan" /\ call'[p].pc \in {"loop", "done"}

\* C11: update_all reports overall_verified = true only if no plugin was
\* counted as failed and none as unverified; each plugin whose update call did
\* not exit 0 (non-zero exit or timeout) adds one to plugins_failed, each plugin
\* whose canonical version changed with exit 0 adds one to plugins_updated, and
\* the reported tallies are the numbers of plugins put in each class.
C11_BatchTallies ==
  /\ [](\A p \in Procs : BatchDone(p) =>
          /\ call[p].reply.overall_verified =>
               (call[p].reply.plugins_failed = 0 /\ call[p].reply.plugins_unverified = 0)
          /\ call[p].reply.plugins_failed = CountStatus(p, "failed")
          /\ call[p].reply.plugins_updated = CountStatus(p, "updated")
          /\ call[p].reply.plugins_unverified = CountStatus(p, "unverified"))
  /\ [][\A p \in Procs : ClassifyStep(p) =>
          LET c == call[p]
              firstRow == FirstRow(RowsOf(c.batch.installedBefore, c.pluginKey))
              afterFirst == FirstRow(RowsOf(installed, c.pluginKey))
              last == call'[p].batch.pluginResults[Len(call'[p].batch.pluginResults)]
          IN  /\ ~c.cli.ok =>
                   /\ call'[p].batch.failed = c.batch.failed + 1
                   /\ call'[p].batch.updated = c.batch.updated
                   /\ last.key = c.pluginKey /\ last.status = "failed"
              /\ (c.cli.ok /\ firstRow.version # afterFirst.version) =>
                   /\ call'[p].batch.updated = c.batch.updated + 1
                   /\ call'[p].batch.failed = c.batch.failed
                   /\ last.key = c.pluginKey /\ last.status = "updated"]_vars

\* C11 witness: three installed plugins, two version bumps and one timeout:
\* plugins_updated = 2, plugins_failed = 1, overall_verified = false.
C11_Witness ==
  \E p \in Procs :
    /\ BatchDone(p)
    /\ call[p].reply.total_plugins = 3
    /\ call[p].reply.plugins_updated = 2
    /\ call[p].reply.plugins_failed = 1
    /\ ~call[p].reply.overall_verified
    /\ \E i \in DOMAIN call[p].reply.pluginResults :
         /\ call[p].reply.pluginResults[i].status = "failed"
         /\ call[p].reply.pluginResults[i].detail = ErrTimeout
    /\ \A i \in DOMAIN call[p].reply.pluginResults :
         call[p].reply.pluginResults[i].status = "updated" =>
           call[p].reply.pluginResults[i].detail = <<"1.0.0", "1.1.0">>

\* Positions in the log of a call where it spawned a mutating CLI command.
MutatingSpawns(p) ==
  {i \in DOMAIN call[p].log : call[p].log[i].op = "spawn" /\ call[p].log[i].args # ProbeArgs}

\* The accessors of the registry slice the command spawned at position i is
\* verified against.
SliceOf(p, i) ==
  IF call[p].tool = "update_all"
  THEN IF call[p].log[i].args[2] = "marketplace" THEN {"getKnownMarketplaces"}
       ELSE {"getInstalledPlugins"}
  ELSE {SnapshotReads(call[p].tool)[j].name : j \in DOMAIN SnapshotReads(call[p].tool)}

\* The log of the call holds a read of the accessor at one of the positions.
ReadAt(p, name, positions) ==
  \E j \in positions \cap DOMAIN call[p].log :
    call[p].log[j].op = "read" /\ call[p].log[j].name = name

\* C12: in every mutating tool the slice is read before the mutating CLI
\* command is spawned and read again after it has returned, on every path that
\* spawned it (exit 0, non-zero exit, spawn error, timeout); the before
\* snapshot is the registry as it was when the command started, the after
\* snapshot the registry the command left, and the returned reply carries the
\* verdict.
C12_SnapshotsAroundCli ==
  \A p \in Procs :
    /\ \A i \in MutatingSpawns(p) : \A name \in SliceOf(p, i) :
         /\ ReadAt(p, name, 1..(i - 1))
         /\ call[p].pc = "done" => ReadAt(p, name, (i + 1)..Len(call[p].log))
    /\ (call[p].pc = "done" /\ MutatingSpawns(p) # {}) =>
         call[p].reply.kind \in {"mutation", "update_all"}
    /\ (call[p].pc = "snapshot" /\ call[p].tool \in MutatingTools) =>
         call[p].before = Snapshot(call[p].tool)
    /\ \A tool \in MutatingTools : Mutated(p, tool) => call[p].after = Snapshot(tool)

\* C12 witness: a plugin_update whose CLI call timed out after rewriting the
\* canonical row: the after snapshot shows the change and the verdict is reported.
C12_Witness ==
  \E p \in Procs :
    /\ Mutated(p, "plugin_update")
    /\ call[p].cli.exitCode = -1 /\ call[p].cli.stderr = ErrTimeout
    /\ call[p].after # call[p].before
    /\ call[p].log[Len(call[p].log)].op = "read"
    /\ Verified(p)

\* The messages a single-target mutating tool returns when a precondition or
\* the resolution fails.
PreconditionMessages ==
  {"Plugin system not found.", "Claude CLI not available.", "No plugin matched",
   "Multiple plugins matched; use plugin@marketplace",
   "Plugin is not installed. Use plugin_install first."}

ProbeFailed(p) ==
  \E i \in DOMAIN call[p].log :
    call[p].log[i].op = "spawn" /\ call[p].log[i].args = ProbeArgs /\ ~call[p].log[i].ok

\* C14: when the version probe of a mutating tool (update_all included) does
\* not report ok -- non-zero exit, spawn failure or timeout -- the tool has
\* returned "Claude CLI not available.", has spawned no mutating command, has
\* read no registry and has produced no verification block; and a tool that
\* spawned a mutating command had spawned a successful probe first.
C14_ProbeFailureShortCircuits ==
  \A p \in Procs : call[p].tool \in MutatingTools \cup {"update_all"} =>
    /\ ProbeFailed(p) =>
         /\ call[p].pc = "done"
         /\ call[p].reply = MessageReply("Claude CLI not available.", {})
         /\ MutatingSpawns(p) = {}
         /\ Len(call[p].log) = 1
         /\ call[p].verification = NoVerification
    /\ MutatingSpawns(p) # {} =>
         (call[p].log[1].op = "spawn" /\ call[p].log[1].args = ProbeArgs /\ call[p].log[1].ok)

\* C14 witness: update_all or plugin_install stopped at a failed probe.
C14_Witness ==
  \E p \in Procs :
    /\ call[p].tool \in {"update_all", "plugin_install"}
    /\ ProbeFailed(p)
    /\ call[p].pc = "done"
    /\ call[p].reply.text = "Claude CLI not available."

\* The tools the plugin exports.
ReadOnlyTools == {"plugin_search", "plugin_info", "plugin_list", "plugin_status", "marketplace_list"}
AllTools == ReadOnlyTools \cup MutatingTools \cup {"update_all"}

\* The messages the tools return when the data root is missing (without
\* their markdown marks).
RootMissingMessages ==
  {"Plugin system not found.",
   "Plugin system not found. Run Claude Code once so ~/.claude/plugins is initialized.",
   "Plugin system not found. Run Claude Code once to initialize ~/.claude/plugins."}

\* C15: a call of any of the 14 tools made while the root data directory is
\* missing has returned the "plugin system not found" message and has neither
\* read a registry accessor nor spawned the CLI (no probe, no mutating
\* command); with the root present no tool returns that message.
C15_RootCheckedFirst ==
  \A p \in Procs : call[p].pc # "idle" =>
    /\ call[p].tool \in AllTools
    /\ ~rootExists =>
         /\ call[p].pc = "done"
         /\ call[p].reply.kind = "message"
         /\ call[p].reply.text \in RootMissingMessages
         /\ call[p].log = <<>>
    /\ rootExists =>
         ~(call[p].pc = "done" /\ call[p].reply.kind = "message"
             /\ call[p].reply.text \in RootMissingMessages)

\* C15 witness: plugin_status, which otherwise runs the version probe,
\* returned the message without any read or spawn.
C15_Witness ==
  \E p \in Procs :
    /\ ~rootExists
    /\ call[p].tool = "plugin_status" /\ call[p].pc = "done"
    /\ call[p].reply.text \in RootMissingMessages
    /\ call[p].log = <<>>

\* The keys the identifier of a plugin tool call matched when it was resolved
\* (the registry is the one of the before snapshot once the CLI has run).
MatchesOf(p) ==
  LET inst == IF MutatingSpawns(p) # {} THEN call[p].before.installed ELSE getInstalledPlugins
  IN  findMatchingPlugins(CatalogKeys \cup DOMAIN inst, call[p].plugin, call[p].marketplace)

\* The marketplace named by a marketplace_update / marketplace_remove call was
\* registered when the tool took its before snapshot.
NamesKnownMarketplace(p) == call[p].marketplace \in DOMAIN call[p].before.known

\* C16 as stated: every mutating tool that spawned its CLI command had matched
\* its identifier to exactly one target: a plugin tool to one key of the merged
\* view, marketplace_update (with a name) and marketplace_remove to one
\* registered marketplace.
C16_EveryToolResolves ==
  \A p \in Procs : MutatingSpawns(p) # {} =>
    /\ call[p].tool \in PluginTools => Cardinality(MatchesOf(p)) = 1
    /\ (call[p].tool \in {"marketplace_update", "marketplace_remove"} /\ call[p].marketplace # "") =>
         NamesKnownMarketplace(p)

\* C16 amended: the five plugin tools resolve the identifier before the CLI: a
\* plugin tool that spawned its command had exactly one match and passes that
\* key, and with zero or several matches it has returned the resolution
\* message (with the candidates) without spawning; the marketplace tools do no
\* resolution: they return no resolution message and hand the raw argument to
\* the CLI whether or not it names a registered marketplace.
C16_PluginToolsResolve ==
  \A p \in Procs :
    /\ (call[p].tool \in PluginTools /\ MutatingSpawns(p) # {}) =>
         /\ MatchesOf(p) = {call[p].pluginKey}
         /\ \A i \in MutatingSpawns(p) : call[p].log[i].args[3] = call[p].pluginKey
    /\ (call[p].tool \in PluginTools /\ call[p].pc = "done" /\ Cardinality(MatchesOf(p)) # 1
          /\ call[p].log # <<>> /\ call[p].log[1].ok) =>
         /\ call[p].reply.kind = "message"
         /\ call[p].reply.text \in {"No plugin matched", "Multiple plugins matched; use plugin@marketplace"}
         /\ call[p].reply.candidates = (IF Cardinality(MatchesOf(p)) > 1 THEN MatchesOf(p) ELSE {})
         /\ MutatingSpawns(p) = {}
    /\ call[p].tool \in MarketplaceTools =>
         /\ call[p].reply.kind = "message" =>
              call[p].reply.text \in {"Plugin system not found.", "Claude CLI not available."}
         /\ \A i \in MutatingSpawns(p) :
              call[p].log[i].args = CliArgs([tool |-> call[p].tool, marketplace |-> call[p].marketplace,
                                             pluginKey |-> ""])

\* C16 witness: marketplace_remove of a name that is not registered has
\* spawned `claude plugin marketplace remove c` and returned its block.
C16_Witness ==
  \E p \in Procs :
    /\ Mutated(p, "marketplace_remove")
    /\ call[p].marketplace = "c" /\ ~NamesKnownMarketplace(p)
    /\ call[p].cli.command = <<"claude", "plugin", "marketplace", "remove", "c">>

\* A call that went through identifier resolution: plugin_info, or a plugin
\* tool past its two availability checks.
Resolving(p) ==
  \/ call[p].tool = "plugin_info" /\ call[p].pc = "done" /\ rootExists
  \/ call[p].tool \in PluginTools /\ call[p].log # <<>> /\ call[p].log[1].ok

\* The three outcomes as the call shows them.
NotFoundOutcome(p) ==
  /\ call[p].pc = "done" /\ call[p].reply.kind = "message"
  /\ call[p].reply.text = "No plugin matched" /\ call[p].reply.candidates = {}
  /\ call[p].pluginKey = ""
AmbiguousOutcome(p, matches) ==
  /\ call[p].pc = "done" /\ call[p].reply.kind = "message"
  /\ call[p].reply.text = (IF call[p].tool = "plugin_info"
                           THEN "Multiple plugins matched. Specify plugin@marketplace:"
                           ELSE "Multiple plugins matched; use plugin@marketplace")
  /\ call[p].reply.candidates = matches
  /\ call[p].pluginKey = ""
ResolvedOutcome(p, target) ==
  IF call[p].tool = "plugin_info"
  THEN call[p].reply.kind = "info" /\ call[p].reply.key = target
  ELSE call[p].pluginKey = target
         /\ ~(call[p].pc = "done" /\ call[p].reply.kind = "message"
                /\ call[p].reply.text \in {"No plugin matched", "Multiple plugins matched; use plugin@marketplace"})

\* C17: resolution over the merged catalog + installed view has three
\* outcomes, in resolvePluginTarget and in plugin_info alike: no match gives
\* "not found", one match gives that target, several matches give the
\* ambiguous message with every matching key as candidate and no target; the
\* name x without '@' and without hint, published by a and B, gives the
\* candidates x@a and x@B.
C17_ThreeOutcomes ==
  \A p \in Procs : Resolving(p) =>
    /\ MatchesOf(p) = {} => NotFoundOutcome(p)
    /\ Cardinality(MatchesOf(p)) = 1 => ResolvedOutcome(p, CHOOSE k \in MatchesOf(p) : TRUE)
    /\ Cardinality(MatchesOf(p)) > 1 => AmbiguousOutcome(p, MatchesOf(p))
    /\ (call[p].plugin = "x" /\ call[p].marketplace = "") =>
         AmbiguousOutcome(p, {"x@a", "x@B"})

\* C17 witness: plugin_info for x answered with the candidates x@a and x@B.
C17_Witness ==
  \E p \in Procs :
    /\ call[p].tool = "plugin_info" /\ call[p].pc = "done"
    /\ call[p].plugin = "x" /\ call[p].marketplace = ""
    /\ call[p].reply.kind = "message"
    /\ call[p].reply.candidates = {"x@a", "x@B"}

\* The identifier of the call contains "@".
HasAt(p) == includes(Chars(call[p].plugin), <<"@">>)

\* The keys of the merged view the call resolved against.
MergedOf(p) ==
  CatalogKeys \cup DOMAIN (IF MutatingSpawns(p) # {} THEN call[p].before.installed
                           ELSE getInstalledPlugins)

\* C18: an identifier k that contains '@' resolves to the plugin whose
\* composite key equals k exactly when the merged view holds that key, and to
\* "not found" otherwise: never to a plugin matched by its name alone, by a
\* prefix of its key, by a marketplace differing in case, or through the
\* marketplace hint, and never to an ambiguous result.
C18_ExactKeyOnly ==
  \A p \in Procs : (Resolving(p) /\ HasAt(p)) =>
    IF call[p].plugin \in MergedOf(p)
    THEN ResolvedOutcome(p, call[p].plugin)
    ELSE NotFoundOutcome(p)

\* C18 witness: plugin_info for x@b, whose name is published and whose
\* marketplace differs from x@B in case only, found nothing.
C18_Witness ==
  \E p \in Procs :
    /\ call[p].tool = "plugin_info" /\ call[p].pc = "done"
    /\ call[p].plugin = "x@b"
    /\ NotFoundOutcome(p)

\* Positions in the log of a call where it spawned a child process.
Spawns(p) == {i \in DOMAIN call[p].log : call[p].log[i].op = "spawn"}

\* C19 as stated: no read-only tool ever spawns a child process through the
\* CLI bridge.
C19_ReadOnlyNeverSpawns ==
  \A p \in Procs : call[p].tool \in ReadOnlyTools => Spawns(p) = {}

\* C19 amended: plugin_search, plugin_info, plugin_list and marketplace_list
\* never spawn a child process; plugin_status, when the data root exists,
\* spawns exactly one, `claude --version`, before its reads and reports its
\* result as claude_cli_available; no read-only tool spawns any other command.
C19_OnlyStatusProbes ==
  \A p \in Procs : (call[p].tool \in ReadOnlyTools /\ call[p].pc = "done") =>
    /\ call[p].tool # "plugin_status" => Spawns(p) = {}
    /\ \A i \in Spawns(p) : call[p].log[i].args = <<"--version">>
    /\ (call[p].tool = "plugin_status" /\ rootExists) =>
         /\ Spawns(p) = {1}
         /\ call[p].reply.kind = "status"
         /\ call[p].reply.claude_cli_available = call[p].log[1].ok

\* C19 witness: plugin_status ran the probe, which failed, and reports the
\* CLI as not available together with the registry counts.
C19_Witness ==
  \E p \in Procs :
    /\ call[p].tool = "plugin_status" /\ call[p].pc = "done"
    /\ Spawns(p) = {1} /\ call[p].log[1].args = <<"--version">>
    /\ call[p].reply.kind = "status"
    /\ ~call[p].reply.claude_cli_available
    /\ call[p].reply.installed_plugins = 3

\* The call holds the result of the mutating command it ran.
HasCliResult(p) ==
  call[p].tool \in MutatingTools /\ call[p].pc \in {"ran", "done"} /\ MutatingSpawns(p) # {}

\* C20: whatever the child process did (exit 0, exit non-zero, spawn failure,
\* timeout, killed with a null status), the result runClaude returned has
\* ok = true exactly when exitCode = 0, and the ok of the logged spawn is that
\* of the result.
C20_OkIffExitZero ==
  \A p \in Procs : HasCliResult(p) =>
    /\ call[p].cli.ok <=> (call[p].cli.exitCode = 0)
    /\ \A i \in MutatingSpawns(p) : call[p].log[i].ok = call[p].cli.ok

\* C20 witness: the child was killed and left a null status and no error:
\* ok = false with exit code -1 and empty stderr.
C20_Witness ==
  \E p \in Procs :
    /\ HasCliResult(p)
    /\ ~call[p].cli.ok /\ call[p].cli.exitCode = -1
    /\ call[p].cli.stderr = <<>> /\ call[p].cli.stdout = <<>>

\* The outcomes of spawnSync that carry an error: the binary could not be
\* started, or the timeout elapsed and the child was killed.
SpawnErrors == {spawn \in SpawnOutcomes : spawn.hasError}

\* A result runClaude built from an outcome that carried an error.
IsErrorResult(result) ==
  result.exitCode = -1 /\ result.stderr \in {spawn.message : spawn \in SpawnErrors}

\* C21: for every outcome of spawnSync that carries an error (spawn failure,
\* timeout) runClaude returns a value: ok = false, exitCode = -1, empty
\* stdout, the error message as stderr. A tool holding such a result treats
\* the call as failed: it goes on to its reply, which shows exit code -1, no
\* restart hint and no drift warning; update_all files the plugin under
\* "failed" with the error message as its line.
C21_SpawnErrorIsFailedResult ==
  /\ \A spawn \in SpawnErrors, args \in {ProbeArgs, <<"plugin", "install", "x@a">>} :
       runClaude(args, spawn) =
         [ok |-> FALSE, exitCode |-> -1, stdout |-> <<>>, stderr |-> spawn.message,
          command |-> <<"claude">> \o args]
  /\ \A p \in Procs :
       /\ (call[p].pc \in {"ran", "mpRan", "pluginRan"} /\ IsErrorResult(call[p].cli)) => ~call[p].cli.ok
       /\ (call[p].pc = "done" /\ call[p].reply.kind = "mutation" /\ IsErrorResult(call[p].cli)) =>
            /\ call[p].reply.exit_code = -1 /\ call[p].reply.block.cli_exit = -1
            /\ call[p].reply.stderr = call[p].cli.stderr
            /\ ~call[p].reply.restartHint /\ ~Warned(p)
       /\ (call[p].pc = "done" /\ call[p].reply.kind = "update_all") =>
            /\ call[p].reply.mpExit = -1 => ~call[p].reply.mpOk
            /\ call[p].reply.hasVerification =>
                 \A i \in DOMAIN call[p].reply.pluginResults :
                   call[p].reply.pluginResults[i].detail = ErrTimeout =>
                     call[p].reply.pluginResults[i].status = "failed"

\* C21 witness: a plugin_install whose child timed out has returned, and its
\* reply shows exit code -1 with the timeout message as stderr.
C21_Witness ==
  \E p \in Procs :
    /\ Mutated(p, "plugin_install")
    /\ call[p].cli = runClaude(CliArgs(call[p]),
                               CHOOSE spawn \in SpawnErrors : spawn.message = ErrTimeout)
    /\ call[p].reply.exit_code = -1 /\ call[p].reply.stderr = ErrTimeout

\* The registry files and the data root as one value.
registry == <<installed, enabled, known, rootExists, files>>

\* The step appended the spawn of a plugin command to the log of call p.
SpawnedCommand(p) ==
  /\ Len(call'[p].log) = Len(call[p].log) + 1
  /\ call'[p].log[Len(call'[p].log)].op = "spawn"
  /\ call'[p].log[Len(call'[p].log)].args # ProbeArgs

\* C22: the registry changes only in a step in which a tool call is inside
\* runClaude with a plugin command, i.e. by the child process; every step of
\* a read-only tool, the version probe included, and every other step of a
\* mutating tool (entry checks, resolution, snapshots, verdict, reply) leaves
\* all registry files and the data root as they were.
C22_OnlyCliChangesRegistry ==
  [][ /\ registry' # registry => \E p \in Procs : SpawnedCommand(p)
      /\ \A p \in Procs : call'[p].tool \in ReadOnlyTools => registry' = registry ]_vars

\* C22 witness: a plugin_uninstall has returned and installed_plugins.json is
\* not what the call read before its CLI call.
C22_Witness ==
  \E p \in Procs :
    /\ Mutated(p, "plugin_uninstall")
    /\ installed # call[p].before.installed
    /\ call[p].after.installed = installed

\* A returned call that spawned at least one plugin command.
InvokedCli(p) == call[p].pc = "done" /\ MutatingSpawns(p) # {}

\* The reply shows the command spawned at position i of the log of call p
\* with an exit code and trimmed outputs, next to a verification block.
ShowsCommand(p, i) ==
  /\ \E section \in CliSections(call[p].reply) :
       /\ section.command = <<"claude">> \o call[p].log[i].args
       /\ section.stdout = trim(section.stdout) /\ section.stderr = trim(section.stderr)
       /\ (section.exit_code = 0) <=> call[p].log[i].ok
  /\ \E block \in VerificationBlocks(call[p].reply) :
       /\ block.verified \in BOOLEAN
       /\ block.reason # ""
       /\ block.hasWarning <=> (call[p].log[i].ok /\ ~block.verified)

\* C23: the reply of every tool call that spawned plugin commands,
\* update_all's included, shows each command that was run with its exit code
\* and trimmed stdout/stderr, and a verification block with verified, before,
\* after, reason and the warning when there is one.
C23_EveryResultShowsCli ==
  \A p \in Procs : InvokedCli(p) => \A i \in MutatingSpawns(p) : ShowsCommand(p, i)

\* Number of child processes of the module that are running.
RunningChildren == Cardinality({p \in RaceProcs : call[p].pc = "cli"})

\* C25: with two tool calls in flight at most one child process of the module
\* is running at any moment, and while it runs no call takes a step: the call
\* that started it stays inside runClaude until the child has exited or was
\* killed at the timeout, and the other call does not move.
C25_OneChildAtATime ==
  /\ [](RunningChildren <= 1)
  /\ [][ \A p \in RaceProcs : call[p].pc = "cli" =>
           /\ \A q \in RaceProcs \ {p} : call'[q] = call[q]
           /\ call'[p].pc = "ran" /\ call'[p].cli.command = <<"claude">> \o CliArgs(call[p]) ]_vars

\* C25 witness: the child of one call is running while the other call has
\* taken its before-snapshot and has its own runClaude call next.
C25_Witness ==
  \E p, q \in RaceProcs :
    p # q /\ call[p].pc = "cli" /\ call[q].pc = "snapshot"

\* C24: nothing ties a call's two snapshots to its own CLI call. With two
\* plugin_install calls for the same key in flight, each snapshot is the
\* shared installed_plugins.json at the moment of the read, whatever the
\* other call's child has written in between, and the verdict is the
\* comparison of the call's own two snapshots; so a call is verified by a row
\* the other call's child added.
C24_VerdictFromSharedSnapshots ==
  /\ [](\A p \in RaceProcs :
          Mutated(p, "plugin_install") => (Verified(p) <=> AfterCount(p) > BeforeCount(p)))
  /\ [][ \A p \in RaceProcs :
           /\ (call[p].pc = "resolved" /\ call'[p].pc = "snapshot") =>
                call'[p].before.installed = installed
           /\ (call[p].pc = "ran" /\ call'[p].pc = "done") =>
                call'[p].after.installed = installed ]_vars

\* C24 witness: the child of call p was never started (ENOENT, exit code -1),
\* the child of the other call ran after p's before-snapshot, and p has
\* returned verified = true for the row that child added.
C24_Witness ==
  \E p, q \in RaceProcs :
    /\ p # q
    /\ Mutated(p, "plugin_install")
    /\ ~call[p].cli.ok /\ call[p].cli.exitCode = -1 /\ call[p].cli.stderr = ErrSpawn
    /\ Verified(p) /\ AfterCount(p) = BeforeCount(p) + 1
    /\ call[q].pc \in {"ran", "done"} /\ MutatingSpawns(q) # {}

\* The keys the catalogs that parse publish.
ParsedKeys == {PublishedRows[i] : i \in {j \in DOMAIN PublishedRows :
                                            files.catalogs[CatalogOf(PublishedRows[j])] = "ok"}}

\* A plugin_search without any filter or limit that has returned.
SearchedAll(p) ==
  call[p].pc = "done" /\ call[p].tool = "plugin_search" /\ call[p].args = NoArgs

Searched(p) ==
  call[p].pc = "done" /\ call[p].tool = "plugin_search" /\ call[p].log # <<>>

\* Row a may stand before row b: installed rows first, then the higher
\* install count, then the name.
MayPrecede(a, b) ==
  \/ IsInstalled(a) /\ ~IsInstalled(b)
  \/ /\ IsInstalled(a) = IsInstalled(b)
     /\ \/ Installs(a) > Installs(b)
        \/ Installs(a) = Installs(b) /\ localeCompare(NameChars(a), NameChars(b)) <= 0

\* Row key passes every filter the caller supplied.
PassesFilters(key, a) ==
  /\ a.query # "" => includes(haystack(key), toLowerCase(Chars(a.query)))
  /\ a.category # "" => toLowerCase(Category(key)) = toLowerCase(Chars(a.category))
  /\ a.marketplace # "" => toLowerCase(MarketplaceChars(key)) = toLowerCase(Chars(a.marketplace))
  /\ a.installed_only => IsInstalled(key)

\* The rows of a reply (none when it is the "No plugins matched." message).
ReturnedRows(p) == IF call[p].reply.kind = "search" THEN call[p].reply.rows ELSE <<>>

\* C27: the rows plugin_search returns stand installed-first, then by install
\* count descending, then by name; each passes every supplied filter; there
\* are at most `limit` of them (20 without a limit); and they are the first
\* rows of that order: no catalog row that passes the filters and was left
\* out may stand before a returned one, and rows are left out only when the
\* limit is reached.
C27_SearchOrderFiltersLimit ==
  \A p \in Procs : Searched(p) =>
    LET rows == ReturnedRows(p)
        a == call[p].args
        limit == IF a.limit = 0 THEN 20 ELSE a.limit
        returned == {rows[i] : i \in DOMAIN rows}
        passing == {k \in CatalogKeys : PassesFilters(k, a)}
    IN  /\ \A i, j \in DOMAIN rows : i < j => MayPrecede(rows[i], rows[j]) /\ rows[i] # rows[j]
        /\ returned \subseteq passing
        /\ Len(rows) <= limit
        /\ Len(rows) = (IF Cardinality(passing) < limit THEN Cardinality(passing) ELSE limit)
        /\ \A k \in passing \ returned : \A i \in DOMAIN rows : MayPrecede(rows[i], k)
        /\ (call[p].reply.kind = "message") <=> (passing = {})

\* C27 witness: a search with limit 2 over three catalog rows of which only
\* x@a is installed has returned x@a, then x@B with its 25 installs, and has
\* left out y@a.
C27_Witness ==
  \E p \in Procs :
    /\ Searched(p) /\ call[p].args.limit = 2 /\ call[p].args.query = ""
    /\ call[p].reply.kind = "search" /\ call[p].reply.rows = <<"x@a", "x@B">>
    /\ IsInstalled("x@a") /\ ~IsInstalled("x@B") /\ ~IsInstalled("y@a")

\* The command update_all spawns for one plugin key.
PluginUpdateArgs(key) == <<"plugin", "update", key, "--scope", "user">>

\* C28: in every state of an update_all call the plugin commands it has
\* spawned so far are: first, once, `plugin marketplace update`; after it only
\* `plugin update <key> --scope user` for keys of the snapshot of
\* installed_plugins.json, each key at most once, in ascending key order.
\* When the call has returned, every key of the snapshot was visited,
\* whatever the results of the earlier updates.
C28_MarketplacesOnceThenEachKey ==
  \A p \in Procs : call[p].tool = "update_all" =>
    LET spawns == MutatingSpawns(p)
        keys == DOMAIN call[p].batch.installedBefore
        first == CHOOSE i \in spawns : \A j \in spawns : i <= j
    IN  /\ spawns # {} =>
             /\ call[p].log[first].args = <<"plugin", "marketplace", "update">>
             /\ \A i \in spawns \ {first} :
                  \E key \in keys : call[p].log[i].args = PluginUpdateArgs(key)
             /\ \A i, j \in spawns \ {first} : i < j =>
                  /\ call[p].log[i].args # call[p].log[j].args
                  /\ CharsBefore(KeyChars(call[p].log[i].args[3]), KeyChars(call[p].log[j].args[3]))
        /\ (call[p].pc = "done" /\ call[p].reply.kind = "update_all") =>
             /\ Cardinality(spawns) = 1 + Cardinality(keys)
             /\ \A key \in keys : \E i \in spawns : call[p].log[i].args = PluginUpdateArgs(key)

\* C28 witness: with x@B, x@a and y@a installed, the update of x@B failed and
\* the call has gone on to x@a and y@a, four commands in all.
C28_Witness ==
  \E p \in Procs :
    /\ BatchDone(p)
    /\ Cardinality(MutatingSpawns(p)) = 4
    /\ \E i, j, k \in MutatingSpawns(p) :
         /\ i < j /\ j < k
         /\ call[p].log[i].args = PluginUpdateArgs("x@B") /\ ~call[p].log[i].ok
         /\ call[p].log[j].args = PluginUpdateArgs("x@a")
         /\ call[p].log[k].args = PluginUpdateArgs("y@a")

\* A returned update_all whose marketplace command exited 0 and whose
\* marketplace step was not verified.
MarketplaceDrift(p) ==
  /\ call[p].pc = "done" /\ call[p].tool = "update_all" /\ call[p].reply.kind = "update_all"
  /\ call[p].reply.mpOk /\ ~call[p].batch.mpVerified

\* C29: when update_all's marketplace command exited 0 and the marketplace
\* step was not verified, the reply warns about the marketplaces and its
\* marketplace line does not show the phase as successful ("<n> updated" or
\* "all up to date").
C29_MarketplaceDriftIsReported ==
  \A p \in Procs : MarketplaceDrift(p) =>
    /\ "marketplaces" \in ReplyWarnings(call[p].reply)
    /\ ~call[p].reply.marketplaceLine.success
    /\ call[p].reply.marketplaceLine.text \notin {"updated", "all up to date"}

\* The output of the call confirms the operation: keyword and plugin key.
OutputConfirms(p, keyword) ==
  OutputHas(p, keyword) /\ OutputHas(p, toLowerCase(KeyChars(call[p].pluginKey)))

\* The enabled_state a reply shows for a snapshot is that of the key in it.
ShowsEnabledState(shown, map, key) ==
  /\ shown = "missing" <=> key \notin DOMAIN map
  /\ shown = "enabled" <=> FlagIs(map, key, TRUE)
  /\ shown = "disabled" <=> FlagIs(map, key, FALSE)

\* C30: plugin_enable and plugin_disable report a key that is absent from the
\* enabled map as "missing", not as "disabled"; with the key absent before
\* the call, its being true (enable) or false (disable) afterwards does not
\* verify the call: unless the output confirms the operation, verified is
\* false, and with ok = true the reply carries the drift warning.
C30_AbsentIsThirdState ==
  \A p \in Procs :
    /\ (Mutated(p, "plugin_enable") \/ Mutated(p, "plugin_disable")) =>
         /\ ShowsEnabledState(call[p].reply.block.state_before.enabled_state,
                              call[p].before.enabled, call[p].pluginKey)
         /\ ShowsEnabledState(call[p].reply.block.state_after.enabled_state,
                              call[p].after.enabled, call[p].pluginKey)
    /\ ( /\ Mutated(p, "plugin_enable")
         /\ call[p].pluginKey \notin DOMAIN call[p].before.enabled
         /\ ~OutputConfirms(p, KeywordEnable) ) =>
           ~Verified(p) /\ (call[p].cli.ok => Warned(p))
    /\ ( /\ Mutated(p, "plugin_disable")
         /\ call[p].pluginKey \notin DOMAIN call[p].before.enabled
         /\ ~OutputConfirms(p, KeywordDisable) ) =>
           ~Verified(p) /\ (call[p].cli.ok => Warned(p))

\* C30 witness: a disable of a key that was absent from the map and is false
\* in it afterwards, with exit 0 and a silent output: "missing" before,
\* "disabled" after, verified = false, warning.
C30_Witness ==
  \E p \in Procs :
    /\ Mutated(p, "plugin_disable") /\ call[p].cli.ok
    /\ call[p].pluginKey \notin DOMAIN call[p].before.enabled
    /\ FlagIs(call[p].after.enabled, call[p].pluginKey, FALSE)
    /\ ~OutputConfirms(p, KeywordDisable)
    /\ call[p].reply.block.state_before.enabled_state = "missing"
    /\ call[p].reply.block.state_after.enabled_state = "disabled"
    /\ ~Verified(p) /\ Warned(p)

\* The call has just run, or has returned from, the update command of a key.
RanUpdate(p) ==
  \/ call[p].tool = "plugin_update" /\ call[p].pc \in {"ran", "done"} /\ MutatingSpawns(p) # {}
  \/ call[p].tool = "update_all" /\ call[p].pc = "pluginRan"

\* The canonical row of the key in the snapshot the update started from.
CanonicalBefore(p) ==
  IF call[p].tool = "update_all"
  THEN FirstRow(RowsOf(call[p].batch.installedBefore, call[p].pluginKey))
  ELSE FirstRow(RowsOf(call[p].before.installed, call[p].pluginKey))

\* The row carries a scope / a project path.
HasScope(row) == "scope" \in DOMAIN row /\ row.scope # Undefined
HasProjectPath(row) == "projectPath" \in DOMAIN row /\ row.projectPath # Undefined

\* The scope the claim names for the update of call p.
ExpectedScope(p) ==
  IF call[p].tool = "plugin_update" /\ call[p].scope # Undefined THEN call[p].scope
  ELSE IF HasScope(CanonicalBefore(p)) THEN CanonicalBefore(p).scope
  ELSE "user"

\* C31: the update command of plugin_update and of update_all carries --scope
\* with the scope argument when one was given (plugin_update only), else the
\* scope of the canonical row, else "user"; spawnSync gets a cwd exactly when
\* that scope is "project" and the canonical row has a project path, and the
\* cwd is that path.
C31_ScopeAndWorkingDirectory ==
  \A p \in Procs : RanUpdate(p) =>
    /\ call[p].cli.command =
         <<"claude", "plugin", "update", call[p].pluginKey, "--scope", ExpectedScope(p)>>
    /\ ("cwd" \in DOMAIN call[p].spawnOptions)
         <=> (ExpectedScope(p) = "project" /\ HasProjectPath(CanonicalBefore(p)))
    /\ "cwd" \in DOMAIN call[p].spawnOptions =>
         call[p].spawnOptions.cwd = CanonicalBefore(p).projectPath

\* C31 witness: plugin_update with scope "project" given for a plugin whose
\* row says scope "user" and has a project path: the command says project
\* and runs in that path.
C31_Witness ==
  \E p \in Procs :
    /\ RanUpdate(p) /\ call[p].tool = "plugin_update" /\ call[p].scope = "project"
    /\ HasScope(CanonicalBefore(p)) /\ CanonicalBefore(p).scope = "user"
    /\ call[p].cli.command[6] = "project"
    /\ "cwd" \in DOMAIN call[p].spawnOptions /\ call[p].spawnOptions.cwd = "/p"

\* Sum of the four counters of a batch.
CounterSum(b) == b.updated + b.alreadyLatest + b.failed + b.unverified

\* Number of the four counters that the step raised, each by one at most.
CountersRaised(b, c) ==
  Cardinality({f \in {"updated", "alreadyLatest", "failed", "unverified"} : c[f] = b[f] + 1})

\* C32: every installed key of update_all is counted in exactly one of
\* plugins_updated, plugins_already_latest, plugins_failed and
\* plugins_unverified: each iteration raises exactly one counter by one and
\* leaves the other three alone, each key of the snapshot has exactly one
\* result, and after the loop the four counters sum to total_plugins.
C32_CountersPartitionThePlugins ==
  /\ [](\A p \in Procs : BatchDone(p) =>
          LET r == call[p].reply
          IN  /\ r.plugins_updated + r.plugins_already_latest + r.plugins_failed
                   + r.plugins_unverified = r.total_plugins
              /\ r.total_plugins = Cardinality(DOMAIN call[p].batch.installedBefore)
              /\ Len(r.pluginResults) = r.total_plugins
              /\ \A key \in DOMAIN call[p].batch.installedBefore :
                   Cardinality({i \in DOMAIN r.pluginResults : r.pluginResults[i].key = key}) = 1)
  /\ [][\A p \in Procs : ClassifyStep(p) =>
          /\ CounterSum(call'[p].batch) = CounterSum(call[p].batch) + 1
          /\ CountersRaised(call[p].batch, call'[p].batch) = 1]_vars

\* C32 witness: three installed plugins end in three different counters.
C32_Witness ==
  \E p \in Procs :
    /\ BatchDone(p)
    /\ call[p].reply.total_plugins = 3
    /\ call[p].reply.plugins_already_latest = 1
    /\ call[p].reply.plugins_failed = 1
    /\ call[p].reply.plugins_unverified = 1
    /\ call[p].reply.plugins_updated = 0

\* The result update_all pushed in the iteration that just ended.
LastResult(b) == b.pluginResults[Len(b.pluginResults)]

MarketplaceVerdictStep(p) ==
  call[p].tool = "update_all" /\ call[p].pc = "mpRan" /\ call'[p].pc \in {"loop", "done"}

\* Some marketplace registered after the marketplace update reads differently
\* than before it.
MarketplaceStateChanged(p) ==
  \E target \in DOMAIN known :
    summarizeMarketplaceState(call[p].batch.marketplacesBefore, target)
      # summarizeMarketplaceState(known, target)

\* C34: update_all reports overall_verified = true only if no plugin is
\* failed, none is unverified and the marketplace phase is verified, which
\* takes at least one marketplace after the marketplace update and a changed
\* marketplace state or a no-op phrase; with every plugin verified and the
\* marketplace phase unverified overall_verified is false.
C34_OverallNeedsMarketplaces ==
  /\ [][\A p \in Procs : MarketplaceVerdictStep(p) =>
          (call'[p].batch.mpVerified
             <=> (DOMAIN known # {} /\ (MarketplaceStateChanged(p) \/ OutputHasNoopPhrase(p))))]_vars
  /\ [](\A p \in Procs : BatchDone(p) =>
          LET r == call[p].reply
          IN  /\ r.marketplaces_verified = call[p].batch.mpVerified
              /\ r.overall_verified
                   <=> (r.plugins_failed = 0 /\ r.plugins_unverified = 0 /\ r.marketplaces_verified)
              /\ (r.plugins_verified /\ ~r.marketplaces_verified) => ~r.overall_verified)

\* C34 witness: the marketplace command exited 0 without changing anything
\* and without a no-op phrase, every plugin was updated: plugins_verified is
\* true and overall_verified is false.
C34_Witness ==
  \E p \in Procs :
    /\ BatchDone(p)
    /\ call[p].reply.mpOk /\ ~call[p].reply.marketplaces_verified
    /\ call[p].reply.plugins_failed = 0 /\ call[p].reply.plugins_unverified = 0
    /\ call[p].reply.plugins_updated = call[p].reply.total_plugins
    /\ call[p].reply.plugins_verified
    /\ ~call[p].reply.overall_verified

\* A returned plugin_update whose key had a canonical row with a version
\* before the CLI call and has no installed rows after it.
UpdateLostEveryRow(p) ==
  /\ Mutated(p, "plugin_update")
  /\ BeforeCount(p) > 0 /\ BeforeFirst(p).version # Undefined
  /\ AfterCount(p) = 0

\* C35: plugin_update reports verified = true with the reason "version
\* changed" when the plugin had a canonical row with a version before the CLI
\* call and has no installed rows after it: the missing row is compared as a
\* row whose version is undefined.
C35_VanishedRowsVerifyAsVersionChange ==
  \A p \in Procs : UpdateLostEveryRow(p) =>
    /\ Verified(p)
    /\ call[p].reply.block.reason = "version changed"
    /\ AfterFirst(p).version = Undefined

\* C35 witness: a verified update, exit 0, of a plugin that is not installed
\* any more when the tool returns.
C35_Witness ==
  \E p \in Procs :
    /\ UpdateLostEveryRow(p) /\ Verified(p) /\ call[p].cli.ok
    /\ call[p].pluginKey \notin DOMAIN installed

\* A plugin_update that resolved its key and read a before-snapshot in which
\* the key has no install row.
UpdateOfUninstalled(p) ==
  /\ call[p].tool = "plugin_update" /\ call[p].pluginKey # ""
  /\ call[p].pc \notin {"idle", "resolved"}
  /\ BeforeCount(p) = 0

\* C36: plugin_update for a resolved key without install rows in the
\* before-snapshot returns the "not installed" message: it has spawned no
\* update command and its reply holds no CLI section and no verification block.
C36_UpdateOfUninstalledReturnsMessage ==
  \A p \in Procs : UpdateOfUninstalled(p) =>
    /\ call[p].pc = "done"
    /\ call[p].reply.kind = "message"
    /\ call[p].reply.text = "Plugin is not installed. Use plugin_install first."
    /\ MutatingSpawns(p) = {}
    /\ call[p].cli = NoResult
    /\ call[p].verification = NoVerification

\* C36 witness: plugin_update of x@B, which a catalog offers and nobody
\* installed, has returned the message after the availability probe alone.
C36_Witness ==
  \E p \in Procs :
    /\ UpdateOfUninstalled(p) /\ call[p].pluginKey = "x@B"
    /\ call[p].pluginKey \notin DOMAIN installed
    /\ call[p].reply.kind = "message"
    /\ Spawns(p) # {} /\ MutatingSpawns(p) = {}

\* update_all is in its plugin loop, between two steps of it.
InPluginLoop(p) == call[p].tool = "update_all" /\ call[p].pc \in {"loop", "pluginRan"}

\* Positions in the log where the call read installed_plugins.json.
InstalledReads(p) ==
  {i \in DOMAIN call[p].log : call[p].log[i].op = "read" /\ call[p].log[i].name = "getInstalledPlugins"}

\* C37: update_all takes the before-state of every plugin from the one
\* snapshot of installed_plugins.json it reads after the marketplace phase
\* (the registry as it is then) and never refreshes it in the loop, while the
\* after-state of a plugin is the registry as it is once that plugin's CLI
\* call has returned; a plugin whose canonical version differs from the
\* snapshot at that moment is counted as updated with the two versions,
\* whichever CLI call of the loop made the change.
C37_BeforeStateIsOneSnapshot ==
  /\ [][\A p \in Procs :
          /\ MarketplaceVerdictStep(p) => call'[p].batch.installedBefore = installed
          /\ InPluginLoop(p) => call'[p].batch.installedBefore = call[p].batch.installedBefore
          /\ ClassifyStep(p) =>
               LET c == call[p]
                   firstRow == FirstRow(RowsOf(c.batch.installedBefore, c.pluginKey))
                   afterFirst == FirstRow(RowsOf(installed, c.pluginKey))
                   last == LastResult(call'[p].batch)
               IN  (c.cli.ok /\ firstRow.version # afterFirst.version) =>
                     /\ last.key = c.pluginKey /\ last.status = "updated"
                     /\ last.detail = <<firstRow.version, afterFirst.version>>]_vars
  /\ [](\A p \in Procs : BatchDone(p) =>
          Cardinality(InstalledReads(p)) = call[p].reply.total_plugins + 1)

\* C37 witness: three installed plugins; each CLI call of the loop makes one
\* change to installed_plugins.json. The first plugin was found unchanged
\* after its own call (unverified) and has a new version when the tool
\* returns; the third call removed the third plugin, so the first plugin's row
\* was rewritten by the second call, and the second plugin's row by the first
\* call: that change is counted as the second plugin's update.
C37_Witness ==
  \E p \in Procs :
    /\ BatchDone(p)
    /\ call[p].reply.total_plugins = 3
    /\ LET first == call[p].reply.pluginResults[1]
           second == call[p].reply.pluginResults[2]
           third == call[p].reply.pluginResults[3]
       IN  /\ first.status = "unverified"
           /\ first.key \in DOMAIN installed
           /\ installed[first.key][1].version # call[p].batch.installedBefore[first.key][1].version
           /\ second.status = "updated"
           /\ second.key \in DOMAIN installed
           /\ second.detail = <<call[p].batch.installedBefore[second.key][1].version,
                                installed[second.key][1].version>>
           /\ third.key \notin DOMAIN installed

\* The identifier the caller passed names no marketplace.
NameOnlyInput(p) == ~includes(Chars(call[p].plugin), <<"@">>)

\* The state summary a plugin tool prints for a key of a snapshot.
StateSummary(p, snap, key) ==
  IF call[p].tool \in {"plugin_enable", "plugin_disable"}
  THEN summarizePluginAndEnabled(snap, key)
  ELSE summarizePluginState(snap.installed, key)

\* C38: the five plugin tools pass to the CLI, and compare before and after,
\* the composite key name@marketplace of the one target the identifier
\* resolved to: the third argument of the spawned command is that key, it
\* holds the "@" and is the one match of the input, a name-only input is never
\* passed on as it was, and the state lines of the verification block are the
\* states of that key in the two snapshots.
C38_CompositeKeyEverywhere ==
  \A p \in Procs : (call[p].tool \in PluginTools /\ MutatingSpawns(p) # {}) =>
    /\ MatchesOf(p) = {call[p].pluginKey}
    /\ includes(KeyChars(call[p].pluginKey), <<"@">>)
    /\ \A i \in MutatingSpawns(p) :
         /\ call[p].log[i].args[3] = call[p].pluginKey
         /\ NameOnlyInput(p) => call[p].log[i].args[3] # call[p].plugin
    /\ call[p].pc = "done" =>
         /\ call[p].reply.block.state_before = StateSummary(p, call[p].before, call[p].pluginKey)
         /\ call[p].reply.block.state_after = StateSummary(p, call[p].after, call[p].pluginKey)

\* C38 witness: plugin_install of "x" with marketplace "b" ran
\* `claude plugin install x@B` and was verified by the new row of x@B.
C38_Witness ==
  \E p \in Procs :
    /\ Mutated(p, "plugin_install") /\ Verified(p)
    /\ call[p].plugin = "x" /\ call[p].marketplace = "b"
    /\ call[p].cli.command = <<"claude", "plugin", "install", "x@B">>
    /\ AfterCount(p) > BeforeCount(p)

\* Keys that a parsed catalog offers and installed_plugins.json holds.
InCatalogAndInstalled == CatalogKeys \cap DOMAIN getInstalledPlugins

\* A returned plugin tool or plugin_info whose reply is the ambiguity message.
ReportedAmbiguous(p) ==
  /\ call[p].pc = "done" /\ call[p].tool \in PluginTools \cup {"plugin_info"}
  /\ call[p].reply.kind = "message" /\ call[p].reply.candidates # {}

\* C39: the merged view used for resolution holds exactly one entry per
\* distinct composite key of the catalogs and the installed plugins; the entry
\* of a key that is in a catalog and installed is the installed-derived one
\* (empty description, installs 0, no tags), the entry of a key that is only in
\* a catalog is the catalog's; an ambiguity report therefore always names at
\* least two different keys, and plugin_info of a key that is in a catalog and
\* installed prints the installed-derived entry.
C39_MergedViewOneEntryPerKey ==
  /\ LET view == MergedView
     IN  /\ \A i, j \in DOMAIN view : view[i].key = view[j].key => i = j
         /\ {view[i].key : i \in DOMAIN view} = CatalogKeys \cup DOMAIN getInstalledPlugins
         /\ \A i \in DOMAIN view :
              /\ view[i].key \in DOMAIN getInstalledPlugins =>
                   /\ view[i].description = <<>> /\ view[i].installs = 0
                   /\ view[i].tags = <<>> /\ view[i].installed
              /\ view[i].key \notin DOMAIN getInstalledPlugins =>
                   /\ view[i].description = Description(view[i].key)
                   /\ view[i].installs = Installs(view[i].key)
  /\ \A p \in Procs :
       /\ ReportedAmbiguous(p) => Cardinality(call[p].reply.candidates) >= 2
       /\ (call[p].tool = "plugin_info" /\ call[p].reply.kind = "info"
             /\ call[p].reply.key \in InCatalogAndInstalled) =>
            /\ call[p].reply.installs = 0
            /\ call[p].reply.description = <<>>
            /\ call[p].reply.tags = <<>>
            /\ call[p].reply.installed

\* C39 witness: plugin_info of x with marketplace b, where x@B is in the
\* catalog of B with a description and 25 installs and is installed, found
\* one match and printed the installed-derived entry: installs 0, no
\* description.
C39_Witness ==
  \E p \in Procs :
    /\ call[p].pc = "done" /\ call[p].tool = "plugin_info" /\ call[p].reply.kind = "info"
    /\ call[p].plugin = "x" /\ call[p].marketplace = "b"
    /\ call[p].reply.key = "x@B" /\ "x@B" \in InCatalogAndInstalled
    /\ Installs("x@B") = 25 /\ Description("x@B") # <<>>
    /\ call[p].reply.installs = 0 /\ call[p].reply.description = <<>>
====
